---- MODULE Spec2Model ----
(***************************************************************************)
(* Model of script/helper/EleventyUtil.mjs: the render template function   *)
(* built by renderTemplateFunctionFactory (argument classification, front  *)
(* matter split, front matter rendering and parsing, context merge, body   *)
(* rendering) and the front matter option normalizers.                     *)
(*                                                                         *)
(* Conventions.                                                            *)
(*  - A template text (input, matter, content, rendered) is a sequence of  *)
(*    atoms.  An atom is a string standing for one character ("-", "\n",   *)
(*    "\r", "~", "=", "$") or for a run of word characters \w+ ("f",       *)
(*    "json", "xml", ...).                                                 *)
(*  - A JavaScript value is a record tagged by t: "undefined", "null",     *)
(*    "boolean", "string", "number", "function", "array", "object".        *)
(*  - A JavaScript object is a function from its own enumerable keys to    *)
(*    values; <<>> is the empty object.                                    *)
(***************************************************************************)
EXTENDS Integers, Sequences, FiniteSets, TLC

---------------------------------------------------------------------------
(* JavaScript values *)

Undefined == [t |-> "undefined"]
Null == [t |-> "null"]
False == [t |-> "boolean", v |-> FALSE]
True == [t |-> "boolean", v |-> TRUE]
Str(s) == [t |-> "string", v |-> s]
\* A string held as a template text (a sequence of atoms).
Txt(seq) == [t |-> "text", v |-> seq]
Num(n) == [t |-> "number", v |-> n]
Func == [t |-> "function"]
Arr(seq) == [t |-> "array", v |-> seq]
Obj(o) == [t |-> "object", v |-> o]

EmptyObject == <<>>

\* typeof: null and arrays are objects.
TypeOf(a) ==
    CASE a.t \in {"null", "array", "object"} -> "object"
      [] a.t = "text" -> "string"
      [] OTHER -> a.t

\* ToBoolean.
Truthy(a) ==
    CASE a.t \in {"undefined", "null"} -> FALSE
      [] a.t = "boolean" -> a.v
      [] a.t = "string" -> a.v # ""
      [] a.t = "text" -> a.v # <<>>
      [] a.t = "number" -> a.v # 0
      [] OTHER -> TRUE

\* a || b
OrElse(a, b) == IF Truthy(a) THEN a ELSE b

\* obj.key of a plain object: undefined when the key is absent.
Get(o, k) == IF k \in DOMAIN o THEN o[k] ELSE Undefined

\* seq[i] of a JavaScript array (i from 1): undefined past the end.
At(seq, i) == IF i <= Len(seq) THEN seq[i] ELSE Undefined

\* Object.assign(target, source): own keys of source win.
Assign(target, source) ==
    [k \in (DOMAIN target) \cup (DOMAIN source) |->
        IF k \in DOMAIN source THEN source[k] ELSE target[k]]

\* delete obj[key], and the rest of a destructuring { key, ...rest }.
Without(o, k) == [j \in (DOMAIN o) \ {k} |-> o[j]]

---------------------------------------------------------------------------
(* Template texts *)

LF == "\n"
CR == "\r"
HY == "-"

\* Atoms that stand for runs of word characters (\w+).
WordAtoms == {"f", "g", "H", "1", "json", "toml", "yaml", "coffee", "cson", "xml",
              "constructor", "toString", "ctx", "def", "arg"}

IsWord(c) == c \in WordAtoms

\* The atoms of a delimiter string as it is spliced into the pattern.
Chars(s) ==
    CASE s = "---" -> <<"-", "-", "-">>
      [] s = "~~~" -> <<"~", "~", "~">>
      [] s = "===" -> <<"=", "=", "=">>
      [] OTHER -> <<s>>

RECURSIVE Join(_)
\* The string a sequence of atoms spells.
Join(seq) == IF seq = <<>> THEN "" ELSE Head(seq) \o Join(Tail(seq))

\* s[from..to], empty when to < from.
Slice(s, from, to) == IF to < from THEN <<>> ELSE SubSeq(s, from, to)

\* pat occurs in s at position i.
StartsAt(s, i, pat) ==
    /\ i >= 1
    /\ i + Len(pat) - 1 <= Len(s)
    /\ \A j \in 1..Len(pat) : s[i + j - 1] = pat[j]

\* Number of atoms \r?\n consumes at position i (0: no match).
NewlineAt(s, i) ==
    IF i <= Len(s) /\ s[i] = LF THEN 1
    ELSE IF i + 1 <= Len(s) /\ s[i] = CR /\ s[i + 1] = LF THEN 2
    ELSE 0

RECURSIVE WordRunEnd(_, _)
\* Position after the run of word atoms \w* that starts at i.
WordRunEnd(s, i) == IF i <= Len(s) /\ IsWord(s[i]) THEN WordRunEnd(s, i + 1) ELSE i

defaultFrontMatterLanguage == "yaml"
defaultFrontMatterDelimiter == "---"

\* input.match(new RegExp(...)) with the pattern, written here with spaces
\* between its parts:
\*   ^ (?: d0 ([^\-\r\n]\w*)? \r?\n (?: ([\s\S]*?)? \r?\n )? d1 (?:\r?\n)? )? ([\s\S]* ) $
\* The leading group is optional and greedy and the trailing group matches
\* any rest, so the match never fails: the first way the leading group
\* matches (in backtracking order) is the result, else the whole input is
\* group 3.  Group 1 is forced: it is present exactly when the atom after
\* d0 is none of - \r \n.  Group 2 is lazy: it ends at the first \r?\n
\* that d1 follows; when there is none the inner group is skipped and d1
\* must follow the opening line directly.
FrontMatterMatch(input, d0, d1) ==
    LET open == Chars(d0)
        close == Chars(d1)
        i == Len(open) + 1
        hasLang == i <= Len(input) /\ input[i] \notin {HY, CR, LF}
        j == IF hasLang THEN WordRunEnd(input, i + 1) ELSE i
        n1 == NewlineAt(input, j)
        p == j + n1
        Ks == {k \in 0..(Len(input) + 1 - p) :
                  /\ NewlineAt(input, p + k) > 0
                  /\ StartsAt(input, p + k + NewlineAt(input, p + k), close)}
        k0 == CHOOSE k \in Ks : \A x \in Ks : k <= x
        e == IF Ks # {} THEN p + k0 + NewlineAt(input, p + k0) + Len(close)
             ELSE p + Len(close)
        n2 == NewlineAt(input, e)
        found == /\ StartsAt(input, 1, open)
                 /\ n1 > 0
                 /\ (Ks # {} \/ StartsAt(input, p, close))
    IN  IF found
        THEN [m1 |-> IF hasLang THEN Str(Join(Slice(input, i, j - 1))) ELSE Undefined,
              m2 |-> IF Ks # {} THEN Txt(Slice(input, p, p + k0 - 1)) ELSE Undefined,
              m3 |-> Txt(Slice(input, e + n2, Len(input)))]
        ELSE [m1 |-> Undefined, m2 |-> Undefined, m3 |-> Txt(input)]

---------------------------------------------------------------------------
(* External collaborators: the template engine and the notation parsers *)

\* The underlying template engine, config.javascript.functions[tagName]:
\* the atom "$" is an output expression for the context key foo; it is
\* replaced by the value of foo, or by nothing when the context has no foo.
RECURSIVE EngineRender(_, _)
EngineRender(text, context) ==
    IF text = <<>> THEN <<>>
    ELSE IF Head(text) = "$"
         THEN (IF "foo" \in DOMAIN context THEN <<context["foo"]>> ELSE <<>>)
              \o EngineRender(Tail(text), context)
         ELSE <<Head(text)>> \o EngineRender(Tail(text), context)

RECURSIVE Lines(_)
\* The lines of a text (split at \n, a \r before it dropped).
Lines(text) ==
    LET brk == {i \in 1..Len(text) : text[i] = LF}
        b == CHOOSE i \in brk : \A x \in brk : i <= x
        endOf(n) == IF n >= 1 /\ text[n] = CR THEN n - 1 ELSE n
    IN  IF brk = {} THEN <<text>>
        ELSE <<Slice(text, 1, endOf(b - 1))>> \o Lines(Slice(text, b + 1, Len(text)))

\* The key a front matter line defines: the atom f stands for the line
\* `foo: 1` and the atom g for the line `bar: 1`.
KeyOfLine(line) ==
    CASE line = <<"f">> -> "foo"
      [] line = <<"g">> -> "bar"
      [] OTHER -> ""

\* The mapping of the keys the lines of a text define.
NotationParse(text) ==
    LET lines == Lines(text)
        keys == {KeyOfLine(lines[i]) : i \in 1..Len(lines)} \ {""}
    IN  Obj([k \in keys |-> "1"])

\* What a structured-data parser (YAML.parse, JSON5.parse, CSON.parse,
\* TOML.parse) can return for a text it accepts: the mapping of the keys
\* its lines define.  The libraries are not part of the repository: for a
\* text that defines no key (the empty text among them) a parser returns
\* the empty mapping or no mapping at all (null).
NotationValues(text) ==
    IF NotationParse(text) = Obj(EmptyObject) THEN {Obj(EmptyObject), Null}
    ELSE {NotationParse(text)}

\* The built-in front matter engines; each entry names the library
\* functions it binds.
parseEngine ==
    [yaml |-> [parse |-> "YAML.parse", stringify |-> "YAML.stringify"],
     json |-> [parse |-> "JSON5.parse", stringify |-> "JSON.stringify"],
     coffee |-> [parse |-> "CoffeeScript.compile", stringify |-> "throw"],
     cson |-> [parse |-> "CSON.parse", stringify |-> "CSON.stringify"],
     toml |-> [parse |-> "TOML.parse", stringify |-> "TOML.stringify"]]

\* The values a library parse function can return for a text it accepts.
\* CoffeeScript.compile returns the compiled JavaScript source, a string.
ParseWith(fn, text) ==
    IF fn = "CoffeeScript.compile"
    THEN {Txt(<<"(function() {">> \o text \o <<"}).call(this);">>)}
    ELSE NotationValues(text)

\* frontMatterOptionEngines with the two sources of line 333 exchanged: the
\* parsers assigned last.
EnginesOverParsersLast(table, options) ==
    LET o == IF TypeOf(options) = "object" /\ options.t = "object" THEN options.v ELSE EmptyObject
        parsers == Get(o, "parsers")
        engines == Get(o, "engines")
        withEngines == IF engines.t = "object" THEN Assign(table, engines.v) ELSE table
    IN  [engines |-> IF parsers.t = "object" THEN Assign(withEngines, parsers.v)
                     ELSE withEngines]

\* frontMatterOptionEngines(options) over the built-in table it finds:
\* under the key engines, a fresh object holding a copy of every built-in,
\* then the parsers and the engines of the options, later ones winning.
\* The built-in table is only read.
EnginesOver(table, options) ==
    LET o == IF TypeOf(options) = "object" /\ options.t = "object" THEN options.v ELSE EmptyObject
        parsers == Get(o, "parsers")
        engines == Get(o, "engines")
        withParsers == IF parsers.t = "object" THEN Assign(table, parsers.v) ELSE table
    IN  [engines |-> IF engines.t = "object" THEN Assign(withParsers, engines.v)
                     ELSE withParsers]

\* frontMatterOptionEngines(options) while the built-in table is as the
\* module created it.
frontMatterOptionEngines(options) == EnginesOver(parseEngine, options)

\* Members every plain object inherits from Object.prototype that are
\* functions and return normally when called with one string argument and
\* no receiver: Object (constructor) and Object.prototype.toString.
InheritedFunctions == {"constructor", "toString"}

\* engines[name] on the plain object built by frontMatterOptionEngines.
EngineLookup(engines, name) ==
    IF name \in DOMAIN engines THEN [kind |-> "engine", parse |-> engines[name].parse]
    ELSE IF name \in InheritedFunctions THEN [kind |-> "function", parse |-> name]
    ELSE [kind |-> "undefined", parse |-> ""]

\* Object.assign(target, value) for a value of any type: a string source
\* contributes its index keys, null and undefined nothing.
AssignValue(target, value) ==
    CASE value.t = "object" -> Assign(target, value.v)
      [] value.t = "text" ->
            Assign(target, [k \in {ToString(i - 1) : i \in 1..Len(value.v)} |->
                              value.v[CHOOSE i \in 1..Len(value.v) : ToString(i - 1) = k]])
      [] OTHER -> target

---------------------------------------------------------------------------
(* The front matter option normalizers *)

\* The own properties of a value read with options.key: arrays and
\* primitives have none of the option keys.
Props(value) == IF value.t = "object" THEN value.v ELSE EmptyObject

\* What a normalizer returns or throws.
Returned(o) == [ok |-> TRUE, value |-> o, message |-> "", offending |-> Undefined]
Thrown(msg, what) == [ok |-> FALSE, value |-> EmptyObject, message |-> msg, offending |-> what]

\* The list left as it is: nothing is pushed onto a list of one entry.
PairOfNoPush(list) == list

\* delimiters.push(delimiters[0]) on a list of one entry (lines 412-413);
\* a longer list is left as it is.
PairOf(list) == IF Len(list) = 1 THEN Append(list, list[1]) ELSE list

\* frontMatterOptionDelimiters(options)
frontMatterOptionDelimiters(optionsArg) ==
    LET options == IF optionsArg.t = "undefined"
                   THEN Obj([delimiters |-> Str(defaultFrontMatterDelimiter)])
                   ELSE optionsArg
        defaultPair == Arr(<<Str(defaultFrontMatterDelimiter), Str(defaultFrontMatterDelimiter)>>)
        chosen == CASE options.t = "array" -> options
                    [] options.t = "object" ->
                          OrElse(Get(options.v, "delims"),
                                 OrElse(Get(options.v, "delimiters"), defaultPair))
                    [] OTHER -> Arr(<<options, options>>)
        list == IF chosen.t = "array" THEN chosen.v ELSE <<chosen>>
        pair == PairOf(list)
    IN  IF ~Truthy(options) THEN Returned(EmptyObject)
        ELSE IF TypeOf(options) \notin {"object", "string"}
        THEN Thrown("invalid options: ", options)
        ELSE IF Len(list) = 0 THEN Returned(EmptyObject)
        ELSE IF Len(list) > 2 THEN Thrown("invalid options: ", options)
        ELSE IF At(pair, 1) = Str(defaultFrontMatterDelimiter)
                /\ At(pair, 2) = Str(defaultFrontMatterDelimiter)
        THEN Returned(EmptyObject)
        ELSE Returned([delimiters |-> Arr(pair)])

\* language.toLowerCase().trim() on the notation names of the model.
LowerTrim(s) ==
    CASE s = "YAML" -> "yaml"
      [] s = "Yml" -> "yml"
      [] s = "JS" -> "js"
      [] s = "JavaScript" -> "javascript"
      [] s = " json " -> "json"
      [] s = "CoffeeScript" -> "coffeescript"
      [] s = "CSON" -> "cson"
      [] s = "MyLang" -> "mylang"
      [] s = " " -> ""
      [] OTHER -> s

\* Lines 360-384: the switch on the lower-cased, trimmed name.
LanguageRecord(name) ==
    CASE name \in {"node", "javascript", "js"} -> [language |-> Str("javascript")]
      [] name \in {"legacy", "jslegacy"} -> [language |-> Str("jsLegacy")]
      [] name \in {"coffee", "coffeescript", "cs"} -> [language |-> Str("coffee")]
      [] name \in {"cson", "coffee-json", "coffeejson", "coffee-obj", "coffeeobj", "csobj"} ->
            [language |-> Str("cson")]
      [] name \in {defaultFrontMatterLanguage, "yml"} -> EmptyObject
      [] OTHER -> [language |-> Str(name)]

\* frontMatterOptionLanguage(options)
frontMatterOptionLanguage(optionsArg) ==
    LET options == IF optionsArg.t = "undefined"
                   THEN Obj([language |-> Str(defaultFrontMatterLanguage)])
                   ELSE optionsArg
        language == IF TypeOf(options) = "object"
                    THEN OrElse(Get(Props(options), "language"),
                                OrElse(Get(Props(options), "lang"), Str(defaultFrontMatterLanguage)))
                    ELSE options
        name == LowerTrim(language.v)
    IN  IF ~Truthy(options) THEN Returned(EmptyObject)
        ELSE IF TypeOf(options) \notin {"object", "string"}
        THEN Thrown("frontMatterOptionLanguage: invalid options: ", options)
        ELSE IF language.t # "string"
        THEN Thrown("frontMatterOptionLanguage: invalid language: ", language)
        ELSE Returned(LanguageRecord(name))

\* The separator is added whenever one is given, the default one too.
WithSeparatorAlways(r, separator) ==
    IF Truthy(separator) THEN Assign(r, [excerpt_separator |-> separator]) ELSE r

\* Lines 475-477 and 479-483: the separator is added to the result when it
\* is given and is not the default delimiter.
WithSeparator(r, separator) ==
    IF Truthy(separator) /\ separator # Str(defaultFrontMatterDelimiter)
    THEN Assign(r, [excerpt_separator |-> separator]) ELSE r

\* frontMatterOptionExcerpt(options)
frontMatterOptionExcerpt(optionsArg) ==
    LET options == IF optionsArg.t = "undefined"
                   THEN Obj([excerpt |-> False, excerpt_separator |-> Str(defaultFrontMatterDelimiter),
                             excerpt_alias |-> Str("page.excerpt")])
                   ELSE optionsArg
        type == TypeOf(options)
        given == Get(Props(options), "excerpt")
        excerpt == CASE type = "object" ->
                          IF given.t = "boolean" THEN given ELSE OrElse(given, Undefined)
                     [] type = "string" -> True
                     [] OTHER -> options
        separator0 == CASE type = "object" -> OrElse(Get(Props(options), "excerpt_separator"), Undefined)
                        [] type = "string" -> options
                        [] OTHER -> Undefined
        alias == IF type = "object"
                 THEN OrElse(Get(Props(options), "excerpt_alias"), Undefined)
                 ELSE Undefined
        separator == IF Truthy(excerpt) /\ excerpt.t = "string"
                        /\ excerpt # Str(defaultFrontMatterDelimiter)
                     THEN excerpt ELSE separator0
        withSeparator(r) == WithSeparator(r, separator)
        result == IF ~Truthy(options) THEN EmptyObject
                  ELSE IF Truthy(excerpt)
                  THEN withSeparator([excerpt |-> IF excerpt.t = "string" THEN True ELSE excerpt])
                  ELSE IF excerpt.t # "boolean" /\ Truthy(separator0) /\ separator0.t = "string"
                  THEN withSeparator([excerpt |-> True])
                  ELSE EmptyObject
        enabled == "excerpt" \in DOMAIN result /\ Truthy(result.excerpt)
    IN  IF Truthy(options) /\ type \notin {"object", "boolean", "string", "function"}
        THEN Thrown("frontMatterOptionExcerpt: invalid excerpt: ", Undefined)
        ELSE IF Truthy(options) /\ Truthy(excerpt)
                /\ TypeOf(excerpt) \notin {"string", "boolean", "function"}
        THEN Thrown("frontMatterOptionExcerpt: invalid excerpt: ", excerpt)
        ELSE IF enabled /\ Truthy(alias) /\ alias.t # "string"
        THEN Thrown("frontMatterOptionExcerpt: invalid excerpt_alias: ", alias)
        ELSE IF enabled /\ Truthy(alias) /\ alias # Str("page.excerpt")
        THEN Returned(Assign(result, [excerpt_alias |-> alias]))
        ELSE Returned(result)

\* configAddRenderTemplateTools, lines 948-963: the options object the
\* defaultTemplateOptions argument stands for.
DefaultTemplateOptionsOf(arg) ==
    CASE arg.t \in {"undefined", "null"} -> Obj(EmptyObject)
      [] arg.t = "string" -> Obj([templateLang |-> arg])
      [] arg.t = "array" /\ Len(arg.v) <= 2 /\ (\A i \in 1..Len(arg.v) : arg.v[i].t = "string") ->
            LET lang == IF Len(arg.v) >= 1 /\ Truthy(arg.v[1])
                        THEN [templateLang |-> arg.v[1]] ELSE EmptyObject
                IN  IF Len(arg.v) >= 2 /\ Truthy(arg.v[2])
                    THEN Obj(Assign(lang,
                           [language |-> LET r == frontMatterOptionLanguage(Obj([language |-> arg.v[2]]))
                                         IN  Obj(r.value)]))
                    ELSE Obj(lang)
      [] OTHER -> arg

\* configAddRenderTemplateTools, lines 971-978: the value handed to
\* eleventyConfig.setFrontMatterParsingOptions, or the error thrown first.
FrontMatterParsingOptionsOf(arg) ==
    LET options == DefaultTemplateOptionsOf(arg)
        language == frontMatterOptionLanguage(options)
        delimiters == frontMatterOptionDelimiters(options)
        excerpt == frontMatterOptionExcerpt(options)
    IN  IF ~language.ok THEN language
        ELSE IF ~delimiters.ok THEN delimiters
        ELSE IF ~excerpt.ok THEN excerpt
        ELSE Returned(Assign(Assign(Assign(frontMatterOptionEngines(options),
                                           language.value), delimiters.value), excerpt.value))

---------------------------------------------------------------------------
(* The render function: classification of the arguments *)

\* The most arguments a call may pass after the input.
MaxExtraArgs == 3

IsLanguageArg(a) == TypeOf(a) = "string" \/ (TypeOf(a) = "boolean" /\ ~a.v)
IsObjectArg(a) == TypeOf(a) = "object"
IsNotNull(a) == a.t # "null"
IsInvalidArg(a) ==
    TypeOf(a) # "string" /\ TypeOf(a) # "object" /\ (TypeOf(a) # "boolean" \/ a.v)

\* A classification by position: only a first argument is taken for the
\* language.
LanguageArgsFirstOnly(args) == SelectSeq(SubSeq(args, 1, IF Len(args) >= 1 THEN 1 ELSE 0), IsLanguageArg)

\* Line 702: an undefined argument is taken as null.
NullForUndefined(rawArgs) ==
    [i \in 1..Len(rawArgs) |-> IF rawArgs[i].t = "undefined" THEN Null ELSE rawArgs[i]]

\* Line 706: the arguments that are a string or false, in order.
LanguageArgs(args) == SelectSeq(args, IsLanguageArg)

\* Line 718: the arguments of type object (null included), in order.
ObjectArgs(args) == SelectSeq(args, IsObjectArg)

\* value || {} for an argument that is an object, null or undefined.
ObjectOrEmpty(a) == IF a.t = "object" THEN a.v ELSE EmptyObject

\* The data and options the object arguments give, and whether three of
\* them (one null at least) mark the language as set.
ClassifyObjects(objectArg) ==
    LET n == Len(objectArg)
        nonNull == SelectSeq(objectArg, IsNotNull)
    IN  CASE n = 0 -> [err |-> "", dataArg |-> EmptyObject, options |-> EmptyObject, langSet |-> FALSE]
          [] n = 1 -> [err |-> "", dataArg |-> ObjectOrEmpty(objectArg[1]),
                       options |-> EmptyObject, langSet |-> FALSE]
          [] n = 2 -> [err |-> "", dataArg |-> ObjectOrEmpty(objectArg[1]),
                       options |-> ObjectOrEmpty(objectArg[2]), langSet |-> FALSE]
          [] n = 3 /\ Len(nonNull) < 3 ->
                      [err |-> "", dataArg |-> ObjectOrEmpty(At(nonNull, 1)),
                       options |-> ObjectOrEmpty(At(nonNull, 2)), langSet |-> TRUE]
          [] OTHER -> [err |-> "invalid arguments", dataArg |-> EmptyObject,
                       options |-> EmptyObject, langSet |-> FALSE]

\* Lines 686-758: the outcome of the argument parsing of func(input, ...args).
\* err is the message of the error thrown ("" when none); dataArg is what is
\* assigned onto the copy of the default template data.
ParseArgs(rawArgs, defaultOptions) ==
    LET args == NullForUndefined(rawArgs)
        fail(msg) == [err |-> msg, templateLang |-> False, dataArg |-> EmptyObject,
                      options |-> EmptyObject]
        languageArg == LanguageArgs(args)
        objectArg == ObjectArgs(args)
        c == ClassifyObjects(objectArg)
        langSet == Len(languageArg) = 1 \/ c.langSet
        lang == IF Len(languageArg) = 0 THEN False ELSE languageArg[1]
        tl == Get(c.options, "templateLang")
    IN  IF Len(rawArgs) > MaxExtraArgs THEN fail("invalid input argument")
        ELSE IF Len(rawArgs) = 0
        THEN [err |-> "", templateLang |-> False, dataArg |-> EmptyObject,
              options |-> defaultOptions]
        ELSE IF \E i \in 1..Len(args) : IsInvalidArg(args[i]) THEN fail("invalid arguments")
        ELSE IF Len(languageArg) > 1 THEN fail("invalid arguments")
        ELSE IF c.err # "" THEN fail(c.err)
        ELSE IF tl.t = "undefined"
        THEN [err |-> "", templateLang |-> lang, dataArg |-> c.dataArg, options |-> c.options]
        ELSE IF langSet THEN fail("invalid arguments")
        ELSE IF IsLanguageArg(tl)
        THEN [err |-> "", templateLang |-> tl, dataArg |-> c.dataArg,
              options |-> Without(c.options, "templateLang")]
        ELSE fail("invalid arguments")

---------------------------------------------------------------------------
(* The render function: state *)

VARIABLES
    frontMatterParsingOptions,  \* eleventyConfig.frontMatterParsingOptions
    accessGlobalData,           \* the factory's accessGlobalData argument
    heap,                       \* the objects a call can reach, by allocation site
    pc,                         \* where the running call is
    input,                      \* the input argument of the running call
    args,                       \* its arguments after the input
    templateLang,               \* its language override
    data,                       \* the site of the object its `data` refers to
    options,                    \* its options object
    parsed,                     \* its result record
    err,                        \* the message of the error it threw, in parts
    trace,                      \* its calls of the external collaborators, in order
    normArg,                    \* the argument given to a normalizer
    normFn,                     \* the normalizer applied to it ("" before)
    normResult,                 \* what the normalizer returned or threw
    transform,                  \* the descriptors of the running transformImage batch
    supplied,                   \* the formats lists as the caller supplied them, by site
    lists,                      \* the formats lists as they are now, by site
    files,                      \* the files written, by path
    dirs,                       \* what is at each directory path: "dir" or "file"
    at,                         \* where each descriptor's callback is
    locals,                     \* each callback's local variables and calls
    promise,                    \* the promise transformImage returned
    parked,                     \* the other render call in flight, suspended at an await
    runAt,                      \* where run() is
    configFile,                 \* whether the file at configPath exists
    callback,                   \* what the callback argument of run() is and does
    errorCallback,              \* what the error argument of run() is and does
    thrown,                     \* the value a rejection or throw inside run() carries
    outcome,                    \* how the promise run() returned has settled
    invoked,                    \* the calls of callback and error, in order
    timeout,                    \* the commit helper's timer
    userInput,                  \* the characters the commit helper has collected
    stdin,                      \* whether the commit helper's stdin delivers keys
    execs,                      \* the commit messages handed to exec, in order
    exitCode,                   \* the code the commit helper exited with, if it has
    pressed                     \* the keys the commit helper has handled, in order

vars == <<frontMatterParsingOptions, accessGlobalData, heap, pc, input, args,
          templateLang, data, options, parsed, err, trace, normArg, normFn, normResult,
          transform, supplied, lists, files, dirs, at, locals, promise, parked,
          runAt, configFile, callback, errorCallback, thrown, outcome, invoked,
          timeout, userInput, stdin, execs, exitCode, pressed>>

\* A render call that has not started, with the objects it allocates.
IdleCall ==
    [pc |-> "idle", input |-> <<>>, args |-> <<>>, templateLang |-> Undefined, data |-> "",
     options |-> EmptyObject, parsed |-> EmptyObject, err |-> <<>>, trace |-> <<>>,
     defaultData |-> EmptyObject, merged |-> EmptyObject]

\* The state of a transformImage batch.
batch == <<transform, supplied, lists, files, dirs, at, locals, promise>>

\* Before transformImage is called.
NoBatch ==
    /\ transform = <<>>
    /\ supplied = <<>>
    /\ lists = <<>>
    /\ files = <<>>
    /\ dirs = <<>>
    /\ at = <<>>
    /\ locals = <<>>
    /\ promise = <<>>

norm == <<normArg, normFn, normResult>>

\* The state of a run() call.
runner == <<runAt, configFile, callback, errorCallback, thrown, outcome, invoked>>

\* Before run() is called.
NoRun ==
    /\ runAt = ""
    /\ configFile = FALSE
    /\ callback = Undefined
    /\ errorCallback = Undefined
    /\ thrown = Undefined
    /\ outcome = [state |-> "pending"]
    /\ invoked = <<>>

\* The state of the commit helper.
helper == <<timeout, userInput, stdin, execs, exitCode, pressed>>

\* Before the commit helper is started.
NoCommit ==
    /\ timeout = ""
    /\ userInput = <<>>
    /\ stdin = ""
    /\ execs = <<>>
    /\ exitCode = Undefined
    /\ pressed = <<>>

config == <<frontMatterParsingOptions, accessGlobalData>>
frame == <<input, args, templateLang, data, options, parsed>>

ParsePrefix == "cannot parse front matter of template: "
RenderPrefix == "cannot render template: "
EngineFailure == "template engine error"
ParserFailure == "notation parser error"
LookupFailure == "Cannot read properties of undefined (reading 'parse')"

\* const { engines, ...defaultOptions } = eleventyConfig.frontMatterParsingOptions
DefaultOptions(fmpo) == Without(fmpo, "engines")

\* Line 693 and lines 721-735: a fresh copy of the default template data
\* with the data argument assigned onto it.
DefaultData(defaultTemplateData, dataArg) ==
    Assign(Assign(EmptyObject, defaultTemplateData), dataArg)

\* No copy is made: `data` refers to the caller's this.ctx itself.
DataSiteCtx(globalDataAccess) == IF globalDataAccess THEN "ctx" ELSE "defaultData"

\* Lines 759-761: the site of the object `data` refers to when the front
\* matter is rendered: a fresh object when the global data is accessed.
DataSite(globalDataAccess) == IF globalDataAccess THEN "merged" ELSE "defaultData"

\* The layers assigned in the other order: the ambient context last.
MergedDataCtxLast(ctx, defaultData) == Assign(Assign(EmptyObject, defaultData), ctx)

\* Lines 759-761: Object.assign({}, this.ctx, data)
MergedData(ctx, defaultData) == Assign(Assign(EmptyObject, ctx), defaultData)

\* Line 765: options.delimiters || [default, default]
DelimitersOf(opts) ==
    OrElse(Get(opts, "delimiters"),
           Arr(<<Str(defaultFrontMatterDelimiter), Str(defaultFrontMatterDelimiter)>>))

\* The split with the body taken from group 2 instead of group 3.
SplitInputGroup2(in, opts) ==
    LET delimiters == DelimitersOf(opts)
        match == FrontMatterMatch(in, delimiters.v[1].v, delimiters.v[2].v)
    IN  [input |-> Txt(in),
         language |-> OrElse(match.m1, Str(defaultFrontMatterLanguage)),
         matter |-> OrElse(match.m2, Txt(<<>>)),
         content |-> OrElse(match.m2, Txt(<<>>))]

\* Lines 766-769: the split of the input.
SplitInput(in, opts) ==
    LET delimiters == DelimitersOf(opts)
        match == FrontMatterMatch(in, delimiters.v[1].v, delimiters.v[2].v)
    IN  [input |-> Txt(in),
         language |-> OrElse(match.m1, Str(defaultFrontMatterLanguage)),
         matter |-> OrElse(match.m2, Txt(<<>>)),
         content |-> OrElse(match.m3, Txt(<<>>))]

Event(op, text, context) == [op |-> op, text |-> text, context |-> context]

\* Lines 783 and 790: err.message = prefix + err.message
Wrap(prefix, message) == <<prefix>> \o message

\* The prefix the catch around the front matter block adds (line 783).
FrontMatterCatch(message) == Wrap(ParsePrefix, message)

\* The body catch with the prefix of the front matter catch.
BodyCatchParsePrefix(message) == Wrap(ParsePrefix, message)

\* The prefix the catch around the body rendering adds (line 790).
BodyCatch(message) == Wrap(RenderPrefix, message)

IdleFrame ==
    /\ input = <<>>
    /\ args = <<>>
    /\ templateLang = Undefined
    /\ data = ""
    /\ options = EmptyObject
    /\ parsed = EmptyObject
    /\ err = <<>>
    /\ trace = <<>>

---------------------------------------------------------------------------
(* The render function: the call and its continuations *)

\* func(input, ...args) up to its first await (lines 685-778): the
\* arguments are classified, the context is built, the input is split and
\* the engine is called on the front matter text.
Call(in, rawArgs) ==
    /\ pc = "idle"
    /\ input' = in
    /\ args' = rawArgs
    /\ LET r == ParseArgs(rawArgs, DefaultOptions(frontMatterParsingOptions))
           site == DataSite(accessGlobalData)
           defaultData == DefaultData(heap["defaultTemplateData"], r.dataArg)
           heap1 == [heap EXCEPT !["defaultData"] = defaultData]
           heap2 == IF accessGlobalData
                    THEN [heap1 EXCEPT ![site] = MergedData(heap["ctx"], defaultData)]
                    ELSE heap1
           split == SplitInput(in, r.options)
       IN  IF r.err # ""
           THEN /\ pc' = "failed"
                /\ err' = <<r.err>>
                /\ UNCHANGED <<heap, templateLang, data, options, parsed, trace>>
           ELSE /\ pc' = "renderMatter"
                /\ templateLang' = r.templateLang
                /\ options' = r.options
                /\ data' = site
                /\ heap' = heap2
                /\ parsed' = split
                /\ trace' = <<Event("render", split.matter.v, heap2[site])>>
                /\ UNCHANGED err
    /\ UNCHANGED <<runner, helper, parked, batch, norm, config>>

\* The values the selected engine can give for the rendered front matter:
\* a registered engine parses it; an inherited function is called on it.
ParsedData(engine, text) ==
    CASE engine.kind = "engine" -> ParseWith(engine.parse, text)
      [] engine.parse = "constructor" -> {Txt(text)}
      [] OTHER -> {Txt(<<"[object Undefined]">>)}

\* The engine fails on the front matter text: the catch of line 782.
MatterRenderThrows ==
    /\ pc = "renderMatter"
    /\ pc' = "failed"
    /\ err' = FrontMatterCatch(<<EngineFailure>>)
    /\ trace' = Append(trace, Event("render.throw", <<>>, EmptyObject))
    /\ UNCHANGED <<runner, helper, parked, batch, norm, config, heap, frame>>

\* The engine returns the rendered front matter and no engine is found
\* for the language (lines 778-780): the TypeError is caught at line 782.
EngineMissing ==
    /\ pc = "renderMatter"
    /\ LET rendered == EngineRender(parsed.matter.v, heap[data])
           engine == EngineLookup(frontMatterParsingOptions.engines, parsed.language.v)
       IN  /\ engine.kind = "undefined"
           /\ parsed' = Assign(parsed, [matterRendered |-> Txt(rendered)])
           /\ trace' = Append(trace, Event("render.return", rendered, EmptyObject))
    /\ pc' = "failed"
    /\ err' = FrontMatterCatch(<<LookupFailure>>)
    /\ UNCHANGED <<runner, helper, parked, batch, norm, config, heap, input, args, templateLang, data, options>>

\* The engine returns the rendered front matter and the notation parser
\* rejects it (lines 778-780): caught at line 782.
ParseThrows ==
    /\ pc = "renderMatter"
    /\ LET rendered == EngineRender(parsed.matter.v, heap[data])
           engine == EngineLookup(frontMatterParsingOptions.engines, parsed.language.v)
       IN  /\ engine.kind = "engine"
           /\ parsed' = Assign(parsed, [matterRendered |-> Txt(rendered)])
           /\ trace' = trace \o <<Event("render.return", rendered, EmptyObject),
                                  Event("parse", rendered, EmptyObject),
                                  Event("parse.throw", <<>>, EmptyObject)>>
    /\ pc' = "failed"
    /\ err' = FrontMatterCatch(<<ParserFailure>>)
    /\ UNCHANGED <<runner, helper, parked, batch, norm, config, heap, input, args, templateLang, data, options>>

\* The parsed data is assigned to a copy that is dropped.
MergedNothing(context, value) == context

\* The object `data` refers to after Object.assign(data, parsed.data),
\* line 781.
Merged(context, value) == AssignValue(context, value)

\* The engine returns the rendered front matter, the engine of the
\* language parses it, the parsed data is merged into the context and the
\* engine is called on the body (lines 778-788).
MatterParsed ==
    /\ pc = "renderMatter"
    /\ LET rendered == EngineRender(parsed.matter.v, heap[data])
           engine == EngineLookup(frontMatterParsingOptions.engines, parsed.language.v)
       IN  /\ engine.kind # "undefined"
           /\ \E value \in ParsedData(engine, rendered) :
                 LET context == Merged(heap[data], value)
                 IN  /\ parsed' = Assign(parsed, [matterRendered |-> Txt(rendered),
                                                  data |-> value])
                     /\ heap' = [heap EXCEPT ![data] = context]
                     /\ trace' = trace \o <<Event("render.return", rendered, EmptyObject),
                                            Event("parse", rendered, EmptyObject),
                                            Event("parse.return", <<>>, EmptyObject),
                                            Event("merge", <<>>, context),
                                            Event("render", parsed.content.v, context)>>
    /\ pc' = "renderBody"
    /\ UNCHANGED <<runner, helper, parked, batch, norm, config, input, args, templateLang, data, options, err>>

\* The engine fails on the body: the catch of line 789.
BodyRenderThrows ==
    /\ pc = "renderBody"
    /\ pc' = "failed"
    /\ err' = BodyCatch(<<EngineFailure>>)
    /\ trace' = Append(trace, Event("render.throw", <<>>, EmptyObject))
    /\ UNCHANGED <<runner, helper, parked, batch, norm, config, heap, frame>>

\* The engine returns the rendered body and the call returns parsed
\* (lines 788-793).
BodyRendered ==
    /\ pc = "renderBody"
    /\ LET rendered == EngineRender(parsed.content.v, heap[data])
       IN  /\ parsed' = Assign(parsed, [rendered |-> Txt(rendered)])
           /\ trace' = Append(trace, Event("render.return", rendered, EmptyObject))
    /\ pc' = "done"
    /\ UNCHANGED <<runner, helper, parked, batch, norm, config, heap, input, args, templateLang, data, options, err>>

\* The caller has taken the result or the error; the objects of the call
\* are garbage and the next call can start.
Return ==
    /\ pc \in {"done", "failed"}
    /\ pc' = "idle"
    /\ input' = <<>>
    /\ args' = <<>>
    /\ templateLang' = Undefined
    /\ data' = ""
    /\ options' = EmptyObject
    /\ parsed' = EmptyObject
    /\ err' = <<>>
    /\ trace' = <<>>
    /\ heap' = [heap EXCEPT !["defaultData"] = EmptyObject, !["merged"] = EmptyObject]
    /\ UNCHANGED <<runner, helper, parked, batch, norm, config>>

---------------------------------------------------------------------------
(* Bounded inputs *)

\* The most pieces a generated input text is made of.
MaxPieces == 7

Hyphens == <<"-", "-", "-">>
Tildes == <<"~", "~", "~">>
Equals == <<"=", "=", "=">>

Pieces == {Hyphens, <<LF>>, <<"f">>, <<"-">>}

RECURSIVE PieceTexts(_)
\* The texts made of at most n pieces.
PieceTexts(n) ==
    IF n = 0 THEN {<<>>}
    ELSE LET shorter == PieceTexts(n - 1)
         IN  shorter \cup {t \o q : t \in shorter, q \in Pieces}

\* Texts with an opening line (a language name on some), a block, a closing
\* delimiter and a body, with both kinds of line break.
StructuredTexts ==
    {d[1] \o lang \o nl \o m \o d[2] \o tail :
        d \in {<<Hyphens, Hyphens>>, <<Tildes, Equals>>},
        lang \in {<<>>, <<"json">>, <<"coffee">>, <<"xml">>, <<"constructor">>, <<"toString">>},
        nl \in {<<LF>>, <<CR, LF>>},
        m \in {<<>>, <<"f", LF>>, <<"f", CR, LF>>, <<"$", LF, "g", LF>>},
        tail \in {<<>>, <<LF>>, <<LF, "H">>, <<CR, LF, "$">>}}

TextInputs == PieceTexts(MaxPieces) \cup StructuredTexts

\* The inputs of the calls that vary their arguments.
ArgInputs ==
    {<<>>,
     Hyphens \o <<LF, "$", LF, "f", LF>> \o Hyphens \o <<LF, "$">>,
     Tildes \o <<LF, "$", LF, "f", LF>> \o Equals \o <<LF, "$">>,
     Hyphens \o <<"xml", LF, "f", LF>> \o Hyphens \o <<LF, "H">>}

\* this.ctx of the caller, the default template data and a data argument:
\* every value names the layer it comes from.
CtxObject == [foo |-> "ctx", bar |-> "ctx", baz |-> "ctx", qux |-> "ctx"]
DefaultTemplateData == [foo |-> "def", bar |-> "def", baz |-> "def"]
DataObject == [foo |-> "arg", bar |-> "arg"]
TildePair == Arr(<<Str("~~~"), Str("===")>>)

ArgValues ==
    {Str("njk"), False, True, Num(1), Null, Undefined,
     Obj(EmptyObject), Obj(DataObject),
     Obj([delimiters |-> TildePair]),
     Obj([templateLang |-> Str("md")])}

ArgLists ==
    UNION {[1..n -> ArgValues] : n \in 0..MaxExtraArgs}
    \cup [1..(MaxExtraArgs + 1) -> {Str("njk"), Obj(DataObject)}]

\* The defaultTemplateOptions the site is configured with.
ConfigArgs == {Undefined, Obj([delims |-> TildePair]), Obj([language |-> Str("json")])}

Pending == [ok |-> FALSE, value |-> EmptyObject, message |-> "pending", offending |-> Undefined]

---------------------------------------------------------------------------
(* Specifications *)

NoNormalizer ==
    /\ normArg = Undefined
    /\ normFn = ""
    /\ normResult = Pending

InitHeap ==
    heap = [ctx |-> CtxObject, defaultTemplateData |-> DefaultTemplateData,
            defaultData |-> EmptyObject, merged |-> EmptyObject,
            parseEngine |-> parseEngine]

\* After configAddRenderTemplateTools: the render function exists and no
\* call is running.
Init ==
    /\ frontMatterParsingOptions \in {FrontMatterParsingOptionsOf(a).value : a \in ConfigArgs}
    /\ accessGlobalData \in BOOLEAN
    /\ InitHeap
    /\ pc = "idle"
    /\ IdleFrame
    /\ NoNormalizer
    /\ NoBatch
    /\ parked = IdleCall
    /\ NoRun
    /\ NoCommit

Continue ==
    \/ MatterRenderThrows
    \/ EngineMissing
    \/ ParseThrows
    \/ MatterParsed
    \/ BodyRenderThrows
    \/ BodyRendered
    \/ Return

Next ==
    \/ pc = "idle" /\ \E in \in ArgInputs, a \in ArgLists : Call(in, a)
    \/ Continue

Spec == Init /\ [][Next]_vars

\* The specification of the calls without arguments on many input texts.
InitText ==
    /\ frontMatterParsingOptions \in
          {FrontMatterParsingOptionsOf(a).value : a \in {Undefined, Obj([delims |-> TildePair])}}
    /\ accessGlobalData = TRUE
    /\ InitHeap
    /\ pc = "idle"
    /\ IdleFrame
    /\ NoNormalizer
    /\ NoBatch
    /\ parked = IdleCall
    /\ NoRun
    /\ NoCommit

NextText ==
    \/ pc = "idle" /\ \E in \in TextInputs : Call(in, <<>>)
    \/ Continue

SpecText == InitText /\ [][NextText]_vars

\* Two calls of the same render function in flight.  The function is async
\* (line 685): a call runs from one await to the next (lines 778 and 788)
\* without interruption and the other call runs in between.  The running
\* call is in the call variables; the suspended one is parked with the
\* objects it allocated (defaultData, line 694, and the merged data, line
\* 760), which are its own.  this.ctx, the default template data and the
\* configured options are the same objects for both.
Switch ==
    /\ pc # "idle" \/ parked.pc # "idle"
    /\ parked' = [pc |-> pc, input |-> input, args |-> args, templateLang |-> templateLang,
                  data |-> data, options |-> options, parsed |-> parsed, err |-> err,
                  trace |-> trace, defaultData |-> heap["defaultData"],
                  merged |-> heap["merged"]]
    /\ pc' = parked.pc
    /\ input' = parked.input
    /\ args' = parked.args
    /\ templateLang' = parked.templateLang
    /\ data' = parked.data
    /\ options' = parked.options
    /\ parsed' = parked.parsed
    /\ err' = parked.err
    /\ trace' = parked.trace
    /\ heap' = [heap EXCEPT !["defaultData"] = parked.defaultData, !["merged"] = parked.merged]
    /\ UNCHANGED <<runner, helper, batch, norm, config>>

\* The inputs and the arguments of the interleaved calls.
CallInputs ==
    {<<"$">>,
     Hyphens \o <<LF, "f", LF>> \o Hyphens \o <<LF, "$">>,
     Hyphens \o <<"xml", LF, "g", LF>> \o Hyphens \o <<LF, "$">>}
CallArgLists == {<<>>, <<Obj(DataObject)>>, <<Obj([qux |-> "arg"]), Obj(EmptyObject)>>}

InitCalls ==
    /\ frontMatterParsingOptions = FrontMatterParsingOptionsOf(Undefined).value
    /\ accessGlobalData \in BOOLEAN
    /\ InitHeap
    /\ pc = "idle"
    /\ IdleFrame
    /\ NoNormalizer
    /\ NoBatch
    /\ parked = IdleCall
    /\ NoRun
    /\ NoCommit

NextCalls ==
    \/ pc = "idle" /\ \E in \in CallInputs, a \in CallArgLists : Call(in, a)
    \/ Continue
    \/ Switch

SpecCalls == InitCalls /\ [][NextCalls]_vars

---------------------------------------------------------------------------
(* The specification of the delimiter normalizer on its own *)

\* The most entries of a generated delimiter list.
MaxListLen == 3

NormElements == {Str("---"), Str("~~~"), Str("==="), Num(1)}

NormLists == UNION {[1..n -> NormElements] : n \in 0..MaxListLen}

NormShort == {l \in NormLists : Len(l) <= 1}

\* The values of an option key: absent (undefined), falsy, a token, a list.
NormKeyValues == {Undefined, Str(""), Str("---"), Str("~~~")} \cup {Arr(l) : l \in NormShort}

NormArgs ==
    {Undefined, Null, False, True, Num(0), Num(1), Func, Str(""), Str("---"), Str("~~~")}
    \cup {Arr(l) : l \in NormLists}
    \cup {Obj(EmptyObject)}
    \cup {Obj([delims |-> x]) : x \in NormKeyValues \cup {Arr(l) : l \in NormLists}}
    \cup {Obj([delimiters |-> x]) : x \in NormKeyValues}
    \cup {Obj([delims |-> x, delimiters |-> y]) : x \in NormKeyValues, y \in NormKeyValues}

InitNormalize ==
    /\ frontMatterParsingOptions = FrontMatterParsingOptionsOf(Undefined).value
    /\ accessGlobalData = TRUE
    /\ InitHeap
    /\ pc = "idle"
    /\ IdleFrame
    /\ normArg \in NormArgs
    /\ normFn = ""
    /\ normResult = Pending
    /\ NoBatch
    /\ parked = IdleCall
    /\ NoRun
    /\ NoCommit

\* frontMatterOptionDelimiters(normArg) is called.
NormalizeDelimiters ==
    /\ normFn = ""
    /\ normFn' = "delimiters"
    /\ normResult' = frontMatterOptionDelimiters(normArg)
    /\ UNCHANGED <<runner, helper, parked, batch, normArg, config, heap, pc, frame, err, trace>>

NextNormalize == NormalizeDelimiters

SpecNormalize == InitNormalize /\ [][NextNormalize]_vars

---------------------------------------------------------------------------
(* The specification of the option normalizers and of the configuration *)

\* The notation names given to the normalizers.
LanguageNames ==
    {"yaml", "YAML", "yml", "Yml", "js", "JS", "javascript", "JavaScript", "node",
     "legacy", "jslegacy", "coffee", "CoffeeScript", "cs", "cson", "CSON",
     "coffee-json", "csobj", "json", " json ", "toml", "MyLang", "mylang", " ", ""}

\* An object with the key k when the value is not undefined.
Opt(k, value) == IF value.t = "undefined" THEN EmptyObject ELSE [x \in {k} |-> value]

ExcerptValues == {Undefined, False, True, Str(""), Str("---"), Str("~~~"), Func, Num(1)}
SeparatorValues == {Undefined, Str("---"), Str("~~~"), Num(1)}
AliasValues == {Undefined, Str("page.excerpt"), Str("summary"), Num(1)}

ExcerptObjects ==
    {Obj(Assign(Assign(Opt("excerpt", e), Opt("excerpt_separator", p)), Opt("excerpt_alias", a))) :
        e \in ExcerptValues, p \in SeparatorValues, a \in AliasValues}

\* The values given to the normalizers and, as defaultTemplateOptions, to
\* configAddRenderTemplateTools.
\* Caller-supplied engines: a parse and a stringify function of the caller.
Custom(tag) == [parse |-> tag \o ".parse", stringify |-> tag \o ".stringify"]

\* The tables a caller passes under parsers or engines: absent, or entries
\* for a built-in name, for a new name, or for both.
EngineTables(tag) ==
    {Undefined, Obj([yaml |-> Custom(tag)]), Obj([ini |-> Custom(tag)]),
     Obj([yaml |-> Custom(tag), ini |-> Custom(tag)]),
     Obj([json |-> Custom(tag), coffee |-> Custom(tag)])}

EngineObjects ==
    {Obj([parsers |-> p, engines |-> e]) : p \in EngineTables("p"), e \in EngineTables("e")}
    \cup {Obj([parsers |-> p, language |-> Str("ini")]) : p \in EngineTables("p")}

OptionArgs ==
    {Undefined, Null, False, True, Num(0), Num(1), Func}
    \cup {Str(n) : n \in LanguageNames \cup {"---", "~~~"}}
    \cup {Obj([language |-> Str(n)]) : n \in LanguageNames}
    \cup {Obj([lang |-> Str(n)]) : n \in LanguageNames}
    \cup {Obj([language |-> Num(1)]), Obj([language |-> Str(""), lang |-> Str("JS")]),
          Obj([language |-> Str("toml"), lang |-> Str("JS")])}
    \cup ExcerptObjects
    \cup {Obj([delims |-> x]) : x \in NormKeyValues}
    \cup {Obj([language |-> Str("JS"), delimiters |-> TildePair, excerpt |-> Str("~~~"),
               excerpt_alias |-> Str("summary")])}
    \cup {Arr(<<>>), Arr(<<Str("njk")>>), Arr(<<Str("njk"), Str("json")>>)}
    \cup EngineObjects

\* Before configAddRenderTemplateTools has set any front matter options.
Unconfigured == EmptyObject

InitOptions ==
    /\ frontMatterParsingOptions = Unconfigured
    /\ accessGlobalData = TRUE
    /\ InitHeap
    /\ pc = "idle"
    /\ IdleFrame
    /\ normArg \in OptionArgs
    /\ normFn = ""
    /\ normResult = Pending
    /\ NoBatch
    /\ parked = IdleCall
    /\ NoRun
    /\ NoCommit

\* frontMatterOptionLanguage(normArg) is called.
NormalizeLanguage ==
    /\ normFn = ""
    /\ normFn' = "language"
    /\ normResult' = frontMatterOptionLanguage(normArg)
    /\ UNCHANGED <<runner, helper, parked, batch, normArg, config, heap, pc, frame, err, trace>>

\* frontMatterOptionExcerpt(normArg) is called.
NormalizeExcerpt ==
    /\ normFn = ""
    /\ normFn' = "excerpt"
    /\ normResult' = frontMatterOptionExcerpt(normArg)
    /\ UNCHANGED <<runner, helper, parked, batch, normArg, config, heap, pc, frame, err, trace>>

\* configAddRenderTemplateTools is called with normArg as its
\* defaultTemplateOptions (lines 948-978): the options are set unless a
\* normalizer throws first.
Configure ==
    /\ normFn = ""
    /\ normFn' = "configure"
    /\ LET r == FrontMatterParsingOptionsOf(normArg)
           table == EnginesOver(heap["parseEngine"], DefaultTemplateOptionsOf(normArg))
           result == IF r.ok THEN Returned(Assign(r.value, table)) ELSE r
       IN  /\ normResult' = result
           /\ frontMatterParsingOptions' =
                 IF result.ok THEN result.value ELSE frontMatterParsingOptions
    /\ UNCHANGED <<runner, helper, parked, batch, normArg, accessGlobalData, heap, pc, frame, err, trace>>

\* The caller goes on to its next call, with another value.
NextOption ==
    /\ normFn # ""
    /\ normFn' = ""
    /\ normArg' \in OptionArgs
    /\ normResult' = Pending
    /\ UNCHANGED <<runner, helper, parked, batch, config, heap, pc, frame, err, trace>>

NextOptions ==
    \/ NormalizeLanguage
    \/ NormalizeExcerpt
    \/ Configure
    \/ NextOption

SpecOptions == InitOptions /\ [][NextOptions]_vars

---------------------------------------------------------------------------
(* Properties: the result record and the split (C1, C2) *)

\* The context the engine was given for the front matter text.
MatterContext == trace[1].context

\* The call was made without arguments and without configured delimiters.
DefaultCall == args = <<>> /\ "delimiters" \notin DOMAIN options

\* The readings of a text as: a line of three hyphens, a block M, a line of
\* three hyphens, a body B (a line ends with \n or \r\n; M is not empty and
\* none of its lines is three hyphens).  Each reading is <<M, B>>.
DashForms(text) ==
    LET p == Len(Hyphens) + 1 + NewlineAt(text, Len(Hyphens) + 1)
        closeAt(q) == q + NewlineAt(text, q)
        after(q) == closeAt(q) + Len(Hyphens)
        block(q) == Slice(text, p, q - 1)
        Qs == {q \in (p + 1)..Len(text) :
                  /\ StartsAt(text, 1, Hyphens)
                  /\ NewlineAt(text, Len(Hyphens) + 1) > 0
                  /\ text[q - 1] # CR
                  /\ NewlineAt(text, q) > 0
                  /\ StartsAt(text, closeAt(q), Hyphens)
                  /\ (after(q) = Len(text) + 1 \/ NewlineAt(text, after(q)) > 0)
                  /\ \A i \in 1..Len(Lines(block(q))) : Lines(block(q))[i] # Hyphens}
    IN  {<<block(q), Slice(text, after(q) + NewlineAt(text, after(q)), Len(text))>> : q \in Qs}

\* C1 as stated: a call with the default options on an input made of a
\* line ---, a non-empty block M with no line equal to ---, a line --- and a
\* body B returns matter = M, content = B, language = yaml, matterRendered
\* = the engine's rendering of M, data = its parse and rendered = the
\* engine's rendering of B with the context extended by data.
C1_ResultRecordAsStated ==
    (pc = "done" /\ DefaultCall) =>
        \A form \in DashForms(input) :
            /\ parsed.input = Txt(input)
            /\ parsed.language = Str(defaultFrontMatterLanguage)
            /\ parsed.matter = Txt(form[1])
            /\ parsed.content = Txt(form[2])
            /\ parsed.matterRendered = Txt(EngineRender(form[1], MatterContext))
            /\ parsed.data \in NotationValues(parsed.matterRendered.v)
            /\ parsed.rendered =
                  Txt(EngineRender(form[2], AssignValue(MatterContext, parsed.data)))

\* The delimiters in effect for the running call.
OpenToken == Chars(DelimitersOf(options).v[1].v)
CloseToken == Chars(DelimitersOf(options).v[2].v)

\* The text begins with an opening delimiter line (the token, an optional
\* identifier, a line break) and the closing token stands at the start of a
\* later line.
BeginsWithFrontMatter(text) ==
    LET i == Len(OpenToken) + 1
        j == WordRunEnd(text, i)
        p == j + NewlineAt(text, j)
    IN  /\ StartsAt(text, 1, OpenToken)
        /\ NewlineAt(text, j) > 0
        /\ \E c \in p..Len(text) : StartsAt(text, c, CloseToken) /\ text[c - 1] = LF

\* C2 as stated: a call that returns for an input that does not begin with
\* an opening delimiter line followed later by a closing delimiter (the
\* empty input included) returns content = the input, matter = the empty
\* string and data = the empty mapping.
C2_NoFrontMatterAsStated ==
    (pc = "done" /\ ~BeginsWithFrontMatter(input)) =>
        /\ parsed.content = Txt(input)
        /\ parsed.matter = Txt(<<>>)
        /\ parsed.data = Obj(EmptyObject)

\* C2: a call that returns for such an input returns content = the input,
\* matter = the empty string, matterRendered = the empty string and, as
\* data, what the yaml parser gives for the empty text: the empty mapping
\* or null; no key is added to the context the body is rendered with.
C2_NoFrontMatter ==
    (pc = "done" /\ ~BeginsWithFrontMatter(input)) =>
        /\ parsed.content = Txt(input)
        /\ parsed.matter = Txt(<<>>)
        /\ parsed.matterRendered = Txt(<<>>)
        /\ parsed.language = Str(defaultFrontMatterLanguage)
        /\ parsed.data \in {Obj(EmptyObject), Null}
        /\ trace[6].context = trace[1].context

\* A call returned for an input that begins with the opening token and a
\* line break but has no closing token after it.
C2_Witness ==
    /\ pc = "done"
    /\ input = Hyphens \o <<LF, "f">>
    /\ ~BeginsWithFrontMatter(input)
    /\ parsed.content = Txt(input)
    /\ parsed.matter = Txt(<<>>)
    /\ parsed.data = Null

---------------------------------------------------------------------------
(* Properties: the order of the steps and the failures (C3, C4, C5) *)

\* The collaborator calls of a call that meets no failure, in order.
StepOrder == <<"render", "render.return", "parse", "parse.return", "merge",
               "render", "render.return">>

Ops == [i \in 1..Len(trace) |-> trace[i].op]

\* The own enumerable keys of the parsed data, with their values.
ParsedKeys == AssignValue(EmptyObject, parsed.data)

\* C3: the front matter text is rendered before it is parsed, the parsed
\* data is merged into the context before the body is rendered, no step
\* starts after a failed one, and the body is rendered with a context that
\* holds every key parsed from the front matter.
C3_StepOrder ==
    /\ \E n \in 0..Len(StepOrder) :
          \/ Ops = SubSeq(StepOrder, 1, n)
          \/ /\ n \in {1, 6}
             /\ Ops = SubSeq(StepOrder, 1, n) \o <<"render.throw">>
          \/ /\ n = 3
             /\ Ops = SubSeq(StepOrder, 1, n) \o <<"parse.throw">>
    /\ \A i \in 2..Len(trace) :
          trace[i].op = "render" =>
              /\ trace[i - 1].op = "merge"
              /\ \A k \in DOMAIN ParsedKeys :
                    k \in DOMAIN trace[i].context /\ trace[i].context[k] = ParsedKeys[k]

\* A call returned whose body was rendered with the key foo that its front
\* matter defines.
C3_Witness ==
    /\ pc = "done"
    /\ Ops = StepOrder
    /\ "foo" \in DOMAIN ParsedKeys
    /\ trace[6].context["foo"] = "1"
    /\ parsed.rendered = Txt(<<"1">>)

\* The notation name of the running call is registered in the engine table.
Registered == parsed.language.v \in DOMAIN frontMatterParsingOptions.engines

\* C4 as stated: a call whose front matter names a notation that is not in
\* the engine table fails with the front matter prefix and its body is
\* never rendered.
C4_UnregisteredAsStated ==
    (pc \notin {"idle", "renderMatter"} /\ Len(trace) > 0 /\ ~Registered) =>
        /\ pc = "failed"
        /\ Head(err) = ParsePrefix
        /\ \A i \in 2..Len(trace) : trace[i].op # "render"

\* The body render was started.
BodyStarted == Len(trace) >= 6

---------------------------------------------------------------------------
(* Properties: the arguments (C6) *)

\* The argument parsing of the running call is over.
AfterArgs == pc = "renderMatter" \/ (pc = "failed" /\ trace = <<>>)

\* The reorderings of a list of arguments.
Reorderings(list) ==
    {[i \in 1..Len(list) |-> list[f[i]]] : f \in Permutations(1..Len(list))}

\* What the argument parsing gives for a list of arguments.
Outcome(failed, message, lang, opts, context) ==
    [failed |-> failed, message |-> message, templateLang |-> lang, options |-> opts,
     data |-> context]

ArgOutcome(list) ==
    LET r == ParseArgs(list, DefaultOptions(frontMatterParsingOptions))
    IN  IF r.err # "" THEN Outcome(TRUE, r.err, False, EmptyObject, EmptyObject)
        ELSE Outcome(FALSE, "", r.templateLang, r.options,
                     DefaultData(heap["defaultTemplateData"], r.dataArg))

\* What the argument parsing of the running call gave.
ObservedOutcome ==
    IF pc = "failed" THEN Outcome(TRUE, err[1], False, EmptyObject, EmptyObject)
    ELSE Outcome(FALSE, "", templateLang, options, heap["defaultData"])

FailedWith(message) == pc = "failed" /\ err = <<message>>

TooManyArgs == Len(args) > MaxExtraArgs
TwoLanguages == Len(SelectSeq(args, IsLanguageArg)) > 1
ThreeObjects == Len(SelectSeq(args, LAMBDA a : a.t \in {"object", "array"})) >= 3
UnsupportedArg == \E i \in 1..Len(args) : args[i].t \in {"number", "function"} \/ args[i] = True

KeepsObjectOrder(list) ==
    ObjectArgs(NullForUndefined(list)) = ObjectArgs(NullForUndefined(args))

---------------------------------------------------------------------------
(* Properties: the context (C7, C8) and the options (C9) *)

\* The data argument of the running call.
DataArgument == ParseArgs(args, DefaultOptions(frontMatterParsingOptions)).dataArg

\* The ambient layer: this.ctx when the global data is accessed.
AmbientLayer == IF accessGlobalData THEN heap["ctx"] ELSE EmptyObject

\* The value of a key under the layering of the claim: the front matter,
\* else the data argument, else the default template data, else the
\* ambient context.
LayeredValue(k, top) ==
    IF k \in DOMAIN top THEN top[k]
    ELSE IF k \in DOMAIN DataArgument THEN DataArgument[k]
    ELSE IF k \in DOMAIN heap["defaultTemplateData"] THEN heap["defaultTemplateData"][k]
    ELSE AmbientLayer[k]

LayeredKeys(top) ==
    (DOMAIN top) \cup (DOMAIN DataArgument) \cup (DOMAIN heap["defaultTemplateData"])
        \cup (DOMAIN AmbientLayer)

IsLayered(context, top) ==
    /\ DOMAIN context = LayeredKeys(top)
    /\ \A k \in DOMAIN context : context[k] = LayeredValue(k, top)

\* C7: the context the body is rendered with holds, for every key, the
\* value of the front matter, else of the data argument, else of the
\* default template data, else (global data accessed) of the ambient
\* context; the front matter text is rendered with the same layers but the
\* first.
C7_Layering ==
    /\ Len(trace) >= 1 => IsLayered(trace[1].context, EmptyObject)
    /\ BodyStarted => IsLayered(trace[6].context, ParsedKeys)

\* A body was rendered with a key from each of the four layers.
C7_Witness ==
    /\ pc = "done"
    /\ accessGlobalData
    /\ DataArgument = DataObject
    /\ trace[6].context = [foo |-> "1", bar |-> "arg", baz |-> "def", qux |-> "ctx"]

\* C8 as stated: the keys parsed from the front matter are merged into the
\* caller's ambient context object, which shows them after the call when
\* the global data is accessed.
C8_AmbientMutatedAsStated ==
    (pc = "done" /\ accessGlobalData) =>
        \A k \in DOMAIN ParsedKeys :
            k \in DOMAIN heap["ctx"] /\ heap["ctx"][k] = ParsedKeys[k]

\* C8: the keys parsed from the front matter are merged into the context
\* object of the call, a copy made for the call, which the body is rendered
\* with; the caller's ambient context object and the default template data
\* are never changed.
C8_CallContextOnly ==
    /\ heap["ctx"] = CtxObject
    /\ heap["defaultTemplateData"] = DefaultTemplateData
    /\ pc # "idle" /\ Len(trace) > 0 => data \in {"merged", "defaultData"}
    /\ pc \in {"renderBody", "done"} =>
          \A k \in DOMAIN ParsedKeys :
              k \in DOMAIN heap[data] /\ heap[data][k] = ParsedKeys[k]

\* A call returned that parsed foo from its front matter: its own context
\* holds the parsed value and the caller's context the old one.
C8_Witness ==
    /\ pc = "done"
    /\ accessGlobalData
    /\ "foo" \in DOMAIN ParsedKeys
    /\ heap[data]["foo"] = "1"
    /\ heap["ctx"]["foo"] = "ctx"

\* The options argument of the running call.
OptionsArgument == ParseArgs(args, DefaultOptions(frontMatterParsingOptions)).options

\* C9 as stated: the options of a call are its options argument layered
\* over the configured defaults, so a configured delimiter pair the call
\* does not override is in effect whatever the arguments are.
C9_DefaultsLayeredAsStated ==
    pc = "renderMatter" =>
        \A k \in DOMAIN DefaultOptions(frontMatterParsingOptions) :
            /\ k \in DOMAIN options
            /\ (Len(args) = 0 \/ k \notin DOMAIN OptionsArgument) =>
                  options[k] = frontMatterParsingOptions[k]

---------------------------------------------------------------------------
(* Properties: the delimiter normalizer (C10) *)

\* The value the delimiters are taken from.
GivenDelimiters ==
    CASE normArg.t = "undefined" -> Str(defaultFrontMatterDelimiter)
      [] normArg.t = "object" ->
            IF Truthy(Get(normArg.v, "delims")) THEN normArg.v.delims
            ELSE Get(normArg.v, "delimiters")
      [] OTHER -> normArg

\* The input is a single token: a non-empty string or a list of one entry.
SingleToken ==
    \/ GivenDelimiters.t = "string" /\ GivenDelimiters.v # ""
    \/ GivenDelimiters.t = "array" /\ Len(GivenDelimiters.v) = 1

TheToken == IF GivenDelimiters.t = "array" THEN GivenDelimiters.v[1] ELSE GivenDelimiters

\* The input is falsy, empty or the default.
FalsyEmptyOrDefault ==
    \/ ~Truthy(normArg)
    \/ ~Truthy(GivenDelimiters)
    \/ GivenDelimiters = Arr(<<>>)
    \/ SingleToken /\ TheToken = Str(defaultFrontMatterDelimiter)
    \/ GivenDelimiters = Arr(<<Str(defaultFrontMatterDelimiter), Str(defaultFrontMatterDelimiter)>>)

---------------------------------------------------------------------------
(* Properties: notation resolution (C11) *)

\* The notation name supplied to frontMatterOptionLanguage: the string
\* itself, or the language (else lang) of an options object.
SuppliedName ==
    CASE normArg.t = "string" -> normArg
      [] normArg.t = "object" ->
            OrElse(Get(normArg.v, "language"), Get(normArg.v, "lang"))
      [] OTHER -> Undefined

\* The name with its upper case letters in lower case, nothing else changed.
LowerCase(name) ==
    CASE name = "YAML" -> "yaml"
      [] name = "Yml" -> "yml"
      [] name = "JS" -> "js"
      [] name = "JavaScript" -> "javascript"
      [] name = "CoffeeScript" -> "coffeescript"
      [] name = "CSON" -> "cson"
      [] name = "MyLang" -> "mylang"
      [] OTHER -> name

\* The alias table of the claim: lower case name to canonical notation.
AliasTable ==
    [n \in {"node", "javascript", "js"} |-> "javascript"]
    @@ [n \in {"legacy", "jslegacy"} |-> "jsLegacy"]
    @@ [n \in {"coffee", "coffeescript", "cs"} |-> "coffee"]
    @@ [n \in {"cson", "coffee-json", "coffeejson", "coffee-obj", "coffeeobj", "csobj"} |-> "cson"]
    @@ [n \in {"yaml", "yml"} |-> "yaml"]

\* The record of the claim for a canonical notation: yaml is omitted.
NotationRecord(name) ==
    IF name = defaultFrontMatterLanguage THEN EmptyObject ELSE [language |-> Str(name)]

NameSupplied == normFn = "language" /\ SuppliedName.t = "string" /\ SuppliedName.v # ""

\* C11, the part on the alias table: a name that is in the table, whatever
\* its case, resolves to the canonical notation of the table (yaml omitted).
C11_AliasTable ==
    (NameSupplied /\ LowerCase(SuppliedName.v) \in DOMAIN AliasTable) =>
        /\ normResult.ok
        /\ normResult.value = NotationRecord(AliasTable[LowerCase(SuppliedName.v)])

\* C11 as stated: a name in the alias table, whatever its case, resolves to
\* its canonical notation, and every other string is returned as it was
\* given, character for character.
C11_VerbatimAsStated ==
    /\ C11_AliasTable
    /\ (NameSupplied /\ LowerCase(SuppliedName.v) \notin DOMAIN AliasTable) =>
          /\ normResult.ok
          /\ normResult.value = [language |-> SuppliedName]

---------------------------------------------------------------------------
(* Properties: excerpt resolution (C12) *)

ExcerptKeys == {"excerpt", "excerpt_separator", "excerpt_alias"}

\* The excerpt is enabled in the record a normalizer returned.
EnabledIn(record) == "excerpt" \in DOMAIN record /\ record.excerpt \in {True, Func}

\* The excerpt specification given to frontMatterOptionExcerpt switches the
\* excerpt off: a falsy value, or an object whose excerpt is false.
SwitchedOff ==
    \/ normArg.t # "undefined" /\ ~Truthy(normArg)
    \/ normArg.t = "object" /\ Get(normArg.v, "excerpt") = False

\* C12: what frontMatterOptionExcerpt returns has keys among excerpt,
\* excerpt_separator and excerpt_alias; it is empty whenever the excerpt is
\* not enabled (excerpt is then true or the given function);
\* excerpt_separator is there only when the excerpt is enabled and the
\* separator is not '---', excerpt_alias only when the excerpt is enabled
\* and the alias is not 'page.excerpt'.  true gives excerpt true, a function
\* gives excerpt the function, a string gives excerpt true with the string
\* as separator, absent and false give the empty record.
C12_ExcerptRecord ==
    (normFn = "excerpt" /\ normResult.ok) =>
        LET record == normResult.value
        IN  /\ DOMAIN record \subseteq ExcerptKeys
            /\ ~EnabledIn(record) => record = EmptyObject
            /\ SwitchedOff => record = EmptyObject
            /\ "excerpt_separator" \in DOMAIN record =>
                  /\ EnabledIn(record)
                  /\ Truthy(record.excerpt_separator)
                  /\ record.excerpt_separator # Str(defaultFrontMatterDelimiter)
            /\ "excerpt_alias" \in DOMAIN record =>
                  /\ EnabledIn(record)
                  /\ record.excerpt_alias.t = "string"
                  /\ record.excerpt_alias \notin {Str(""), Str("page.excerpt")}
            /\ normArg = Undefined => record = EmptyObject
            /\ normArg = True => record = [excerpt |-> True]
            /\ normArg = Func => record = [excerpt |-> Func]
            /\ (normArg.t = "string" /\ normArg.v \notin {"", defaultFrontMatterDelimiter}) =>
                  record = [excerpt |-> True, excerpt_separator |-> normArg]
            /\ normArg = Str(defaultFrontMatterDelimiter) => record = [excerpt |-> True]

\* An object with the excerpt on, the default separator and an alias of its
\* own was given: the separator is dropped and the alias kept.
C12_Witness ==
    /\ normFn = "excerpt"
    /\ normArg = Obj([excerpt |-> True, excerpt_separator |-> Str("---"),
                      excerpt_alias |-> Str("summary")])
    /\ normResult.ok
    /\ normResult.value = [excerpt |-> True, excerpt_alias |-> Str("summary")]

---------------------------------------------------------------------------
(* Properties: the options record of the configuration (C13, C14, C15) *)

\* configAddRenderTemplateTools was called and set the front matter options.
Configured == normFn = "configure" /\ normResult.ok

OptionKeys == {"language", "delimiters", "excerpt", "excerpt_separator", "excerpt_alias"}

\* The system default of an option key.
SystemDefault(k) ==
    CASE k = "language" -> Str(defaultFrontMatterLanguage)
      [] k = "delimiters" ->
            Arr(<<Str(defaultFrontMatterDelimiter), Str(defaultFrontMatterDelimiter)>>)
      [] k = "excerpt" -> False
      [] k = "excerpt_separator" -> Str(defaultFrontMatterDelimiter)
      [] k = "excerpt_alias" -> Str("page.excerpt")

\* A record the configuration set, given again as an options object.
AsOptions(record) == Obj([record EXCEPT !["engines"] = Obj(@)])

\* The record the configuration set is minimal and stable.
MinimalAndStable ==
    /\ DOMAIN normResult.value \subseteq OptionKeys \cup {"engines"}
    /\ \A k \in OptionKeys \cap DOMAIN normResult.value :
          normResult.value[k] # SystemDefault(k)
    /\ FrontMatterParsingOptionsOf(AsOptions(normResult.value)) = normResult
    /\ frontMatterParsingOptions = normResult.value

\* C13 as stated: the options record configAddRenderTemplateTools sets
\* holds, beside the engine table, only option keys (language, delimiters,
\* excerpt, excerpt_separator, excerpt_alias) whose value is not the system
\* default, and normalizing that record again gives the same record.
C13_DefaultOmissionAsStated == Configured => MinimalAndStable

\* C13 apart from blank names: the same for every record whose notation
\* name is not the empty string.
C13_NonBlankNames ==
    (Configured /\ Get(normResult.value, "language") # Str("")) => MinimalAndStable

\* C14 as stated: a configuration value that is none of absent, a string,
\* a boolean or an object (a number, a function) makes the normalization
\* fail with an error that carries the value, and no options are set
\* (Configure stores a record only when the result is ok).
C14_InvalidShapeAsStated ==
    (normFn = "configure" /\ normArg.t \in {"number", "function"}) =>
        /\ ~normResult.ok
        /\ normResult.offending = normArg

\* C15 as stated: a configuration value that is absent, a string, a boolean
\* or an object is accepted without error; the string S gives the record of
\* { language: S }, the boolean B the record of { excerpt: B } and the
\* absent value the record of all defaults.
C15_ShapesAsStated ==
    normFn = "configure" =>
        /\ normArg.t \in {"undefined", "string", "boolean", "object"} => normResult.ok
        /\ normArg.t = "string" =>
              normResult = FrontMatterParsingOptionsOf(Obj([language |-> normArg]))
        /\ normArg.t = "boolean" =>
              normResult = FrontMatterParsingOptionsOf(Obj([excerpt |-> normArg]))
        /\ normArg.t = "undefined" => normResult.value = [engines |-> parseEngine]

---------------------------------------------------------------------------
(* The parse and stringify shortcodes over the engine table *)

\* A number that is not finite (Infinity).
Infinity == [t |-> "number", finite |-> FALSE]

\* The keys of the generated documents, in the order a writer lists them.
KeyOrder == <<"a", "b", "c">>

\* How a notation spells the non-finite number.
InfinityToken(notation) ==
    CASE notation = "yaml" -> ".inf"
      [] notation = "toml" -> "inf"
      [] OTHER -> "Infinity"

\* The text of a document in a notation, as a sequence of tokens: a scalar
\* is one token, a sequence its items between "[" and "]", a mapping its
\* keys, each followed by its value, between "{" and "}".
RECURSIVE Write(_, _)
Write(notation, value) ==
    LET RECURSIVE items(_)
        items(i) == IF i > Len(value.v) THEN <<>>
                    ELSE Write(notation, value.v[i]) \o items(i + 1)
        RECURSIVE members(_)
        members(i) == IF i > Len(KeyOrder) THEN <<>>
                      ELSE (IF KeyOrder[i] \in DOMAIN value.v
                            THEN <<KeyOrder[i]>> \o Write(notation, value.v[KeyOrder[i]])
                            ELSE <<>>) \o members(i + 1)
    IN  CASE value.t = "array" -> <<"[">> \o items(1) \o <<"]">>
          [] value.t = "object" -> <<"{">> \o members(1) \o <<"}">>
          [] value.t = "null" -> <<"null">>
          [] value.t = "boolean" -> <<IF value.v THEN "true" ELSE "false">>
          [] value.t = "string" -> <<value.v>>
          [] value = Infinity -> <<InfinityToken(notation)>>
          [] OTHER -> <<ToString(value.v)>>

\* The scalar a token spells in a notation; a token that is no keyword and
\* no number is a string.
ScalarOf(notation, token) ==
    CASE token = "null" -> Null
      [] token = "true" -> True
      [] token = "false" -> False
      [] token = "1" -> Num(1)
      [] token = InfinityToken(notation) -> Infinity
      [] OTHER -> Str(token)

\* The value read from the tokens of a text at position i, and the position
\* after it.
RECURSIVE ReadValue(_, _, _)
RECURSIVE ReadItems(_, _, _, _)
RECURSIVE ReadMembers(_, _, _, _)
ReadValue(notation, tokens, i) ==
    CASE tokens[i] = "[" -> ReadItems(notation, tokens, i + 1, <<>>)
      [] tokens[i] = "{" -> ReadMembers(notation, tokens, i + 1, EmptyObject)
      [] OTHER -> [value |-> ScalarOf(notation, tokens[i]), next |-> i + 1]

ReadItems(notation, tokens, i, acc) ==
    IF tokens[i] = "]" THEN [value |-> Arr(acc), next |-> i + 1]
    ELSE LET r == ReadValue(notation, tokens, i)
         IN  ReadItems(notation, tokens, r.next, Append(acc, r.value))

ReadMembers(notation, tokens, i, acc) ==
    IF tokens[i] = "}" THEN [value |-> Obj(acc), next |-> i + 1]
    ELSE LET r == ReadValue(notation, tokens, i + 1)
         IN  ReadMembers(notation, tokens, r.next, Assign(acc, tokens[i] :> r.value))

\* The notation a library function reads or writes.
NotationOf(fn) ==
    CASE fn \in {"YAML.parse", "YAML.stringify"} -> "yaml"
      [] fn \in {"JSON5.parse", "JSON.stringify"} -> "json"
      [] fn \in {"CSON.parse", "CSON.stringify"} -> "cson"
      [] fn \in {"TOML.parse", "TOML.stringify"} -> "toml"
      [] OTHER -> "coffee"

\* engine.parse(text) for the text of a document: the document the tokens
\* spell; CoffeeScript.compile returns the compiled source, a string.
ParseDocument(fn, text) ==
    IF fn = "CoffeeScript.compile"
    THEN Txt(<<"(function() {">> \o text \o <<"}).call(this);">>)
    ELSE ReadValue(NotationOf(fn), text, 1).value

\* What JSON.stringify writes: null in place of a number that is not finite.
RECURSIVE FiniteOnly(_)
FiniteOnly(value) ==
    CASE value.t = "array" -> Arr([i \in 1..Len(value.v) |-> FiniteOnly(value.v[i])])
      [] value.t = "object" -> Obj([k \in DOMAIN value.v |-> FiniteOnly(value.v[k])])
      [] value = Infinity -> Null
      [] OTHER -> value

StringifyFailure == "stringifying CoffeeScript is not supported"

\* engine.stringify(value): the texts the call can return, or the error it
\* throws.  The json engine writes with JSON.stringify (line 304); the
\* coffee engine always throws (lines 309-311); whether CSON.stringify keeps
\* a number that is not finite is the library's choice.
StringifyWith(fn, value) ==
    CASE fn = "throw" -> {[ok |-> FALSE, text |-> <<>>, message |-> StringifyFailure]}
      [] fn = "JSON.stringify" ->
            {[ok |-> TRUE, text |-> Write("json", FiniteOnly(value)), message |-> ""]}
      [] fn = "CSON.stringify" ->
            {[ok |-> TRUE, text |-> Write("cson", v), message |-> ""] :
                v \in {value, FiniteOnly(value)}}
      [] OTHER -> {[ok |-> TRUE, text |-> Write(NotationOf(fn), value), message |-> ""]}

\* The engine the shortcodes select for a language argument (lines 981, 985).
ShortcodeEngine(engines, language) ==
    LET name == OrElse(language, Str("json"))
        record == frontMatterOptionLanguage(Obj([language |-> name])).value
    IN  engines[IF "language" \in DOMAIN record THEN record["language"].v
                ELSE defaultFrontMatterLanguage]

\* Generated documents: a mapping of one or two keys whose values are
\* scalars, sequences of scalars or mappings of scalars.
Scalars == {Num(1), Str("x"), True, Infinity}
Nested == Scalars \cup {Arr(<<s>>) : s \in Scalars} \cup {Arr(<<Num(1), Str("x")>>)}
                  \cup {Obj([c |-> s]) : s \in Scalars}
Documents ==
    {Obj([a |-> v]) : v \in Nested \ Scalars}
    \cup {Obj([a |-> v, b |-> w]) : v \in Nested, w \in Nested \ Scalars}

RegistryNames == {"yaml", "json", "coffee", "cson", "toml"}

\* After configAddRenderTemplateTools with no options: the shortcodes exist;
\* a caller holds the text of a document in a registered notation.
InitRegistry ==
    /\ frontMatterParsingOptions = FrontMatterParsingOptionsOf(Undefined).value
    /\ accessGlobalData = TRUE
    /\ InitHeap
    /\ pc = "idle"
    /\ args = <<>>
    /\ templateLang = Undefined
    /\ options = EmptyObject
    /\ trace = <<>>
    /\ err = <<>>
    /\ normArg \in {Str(n) : n \in RegistryNames}
    /\ input \in {Write(normArg.v, d) : d \in Documents}
    /\ data = Undefined
    /\ parsed = Undefined
    /\ normFn = ""
    /\ normResult = Pending
    /\ NoBatch
    /\ parked = IdleCall
    /\ NoRun
    /\ NoCommit

\* The parse shortcode on the text: parse(text, undefined, language).
ShortcodeParse ==
    /\ normFn = ""
    /\ normFn' = "parse"
    /\ data' = ParseDocument(ShortcodeEngine(frontMatterParsingOptions.engines, normArg).parse,
                             input)
    /\ UNCHANGED <<runner, helper, parked, batch, config, heap, pc, input, args, templateLang, options, parsed, err, trace,
                   normArg, normResult>>

\* The stringify shortcode on the parsed value:
\* stringify(value, undefined, undefined, language).
ShortcodeStringify ==
    /\ normFn = "parse"
    /\ \E r \in StringifyWith(ShortcodeEngine(frontMatterParsingOptions.engines, normArg).stringify,
                              data) :
          /\ normFn' = IF r.ok THEN "stringify" ELSE "thrown"
          /\ input' = IF r.ok THEN r.text ELSE input
          /\ err' = IF r.ok THEN err ELSE r.message
    /\ UNCHANGED <<runner, helper, parked, batch, config, heap, pc, args, templateLang, data, options, parsed, trace,
                   normArg, normResult>>

\* The parse shortcode on the text stringify returned.
ShortcodeReparse ==
    /\ normFn = "stringify"
    /\ normFn' = "reparse"
    /\ parsed' = ParseDocument(ShortcodeEngine(frontMatterParsingOptions.engines, normArg).parse,
                               input)
    /\ UNCHANGED <<runner, helper, parked, batch, config, heap, pc, input, args, templateLang, data, options, err, trace,
                   normArg, normResult>>

NextRegistry ==
    \/ ShortcodeParse
    \/ ShortcodeStringify
    \/ ShortcodeReparse

SpecRegistry == InitRegistry /\ [][NextRegistry]_vars

\* C16 as stated: for every registered notation stringify(parse(text))
\* succeeds and parses back to structured data equal to parse(text).
C16_RoundTripAsStated ==
    /\ normFn # "thrown"
    /\ normFn = "reparse" => TypeOf(data) = "object" /\ parsed = data

\* The round trip as the code has it: through yaml and toml always, through
\* json and cson for documents of finite numbers whenever json is the
\* notation, and never through coffee.
C16_RoundTripFinite ==
    /\ normFn = "thrown" => normArg = Str("coffee")
    /\ (normFn = "reparse" /\ normArg.v \in {"yaml", "toml"}) => parsed = data
    /\ (normFn = "reparse" /\ normArg = Str("json")) =>
          parsed = FiniteOnly(data)
    /\ (normFn = "reparse" /\ normArg = Str("cson")) =>
          parsed \in {data, FiniteOnly(data)}

---------------------------------------------------------------------------
(* C17 *)

\* The entries the configured value supplies under a key (parsers, engines).
Supplied(key) ==
    LET o == DefaultTemplateOptionsOf(normArg)
        table == IF o.t = "object" THEN Get(o.v, key) ELSE Undefined
    IN  IF table.t = "object" THEN table.v ELSE EmptyObject

\* C17: the engine table a configuration stores holds every built-in name
\* and every supplied name once; an entry under engines wins over one under
\* parsers, which wins over the built-in of the name; the process-wide
\* built-in table stays as the module created it, whatever was configured
\* before.
C17_EngineTable ==
    /\ heap["parseEngine"] = parseEngine
    /\ Configured =>
          LET table == frontMatterParsingOptions.engines
          IN  /\ RegistryNames \subseteq DOMAIN table
              /\ DOMAIN table = RegistryNames \cup DOMAIN Supplied("parsers")
                                              \cup DOMAIN Supplied("engines")
              /\ \A name \in DOMAIN table :
                    table[name] =
                        IF name \in DOMAIN Supplied("engines") THEN Supplied("engines")[name]
                        ELSE IF name \in DOMAIN Supplied("parsers")
                             THEN Supplied("parsers")[name]
                             ELSE parseEngine[name]

\* A configuration whose parsers and engines both name yaml, and whose
\* parsers add ini, has been stored.
C17_Witness ==
    /\ Configured
    /\ {"yaml", "ini"} \subseteq DOMAIN Supplied("parsers")
    /\ "yaml" \in DOMAIN Supplied("engines")
    /\ frontMatterParsingOptions.engines["yaml"] = Custom("e")
    /\ frontMatterParsingOptions.engines["ini"] = Custom("p")
    /\ frontMatterParsingOptions.engines["toml"] = parseEngine["toml"]

---------------------------------------------------------------------------
(* transformImage: a batch of transform descriptors *)

\* What a batch leaves alone: the render and configuration state.
rest == <<runner, helper, parked, norm, config, heap, pc, frame, err, trace>>

\* The most descriptors of a generated batch.
MaxDescriptors == 2

\* Array.prototype.indexOf (from 1; 0 when absent).
IndexOf(seq, x) ==
    IF \E i \in 1..Len(seq) : seq[i] = x
    THEN CHOOSE i \in 1..Len(seq) : seq[i] = x /\ \A j \in 1..(i - 1) : seq[j] # x
    ELSE 0

\* The list after splice(index, 1).
Splice(seq, index) == [i \in 1..(Len(seq) - 1) |-> IF i < index THEN seq[i] ELSE seq[i + 1]]

\* toIco, line 27: sizes.slice().sort((a, b) => a - b), for up to two sizes.
SortedSizes(sizes) ==
    IF Len(sizes) = 2 /\ sizes[1] > sizes[2] THEN <<sizes[2], sizes[1]>> ELSE sizes

\* options.dir.output
OutputDir == "out"

\* imageOptions.outputDir after lines 1107-1109.
OutputDirOf(image) == IF image.outputDir = Undefined THEN OutputDir ELSE image.outputDir.v

\* imageOptions.outputBasename || src.split('/').pop().split('.')[0]
BasenameOf(image) ==
    IF Truthy(image.outputBasename) THEN image.outputBasename.v ELSE image.src

\* The path of the icon container and of a raster output.
IcoPath(image) == [dir |-> OutputDirOf(image), name |-> BasenameOf(image), width |-> 0, format |-> "ico"]
RasterPath(image, width, format) ==
    [dir |-> OutputDirOf(image), name |-> BasenameOf(image), width |-> width, format |-> format]

\* The files the general image facility writes for the formats it reads:
\* one per format and width.
RasterPaths(image, formats) ==
    {RasterPath(image, image.widths[w], formats[f]) :
        w \in 1..Len(image.widths), f \in 1..Len(formats)}

\* fs.writeFileSync and the facility's writes: the file holds what the last
\* writer put there.
WriteAll(fs, paths, i, content) ==
    [p \in (DOMAIN fs) \cup paths |-> IF p \in paths THEN [by |-> i, content |-> content] ELSE fs[p]]

\* mkDirIfNotExist(path), mkDirIfNotExist.js lines 7-18: accessSync with
\* F_OK succeeds for whatever is at the path, a directory or not, and then
\* nothing is created; otherwise mkdirSync makes the directory.
mkDirIfNotExist(fs, path) ==
    IF path \in DOMAIN fs THEN fs ELSE [q \in (DOMAIN fs) \cup {path} |->
                                          IF q = path THEN "dir" ELSE fs[q]]

\* A file can be written in a directory that exists.
IsDirectory(fs, path) == path \in DOMAIN fs /\ fs[path] = "dir"

\* The call of Image(src, { filenameFormat, ...imageOptions }): the spread
\* copies the reference to the formats list, not the list.
ImageCalled(l, formats) ==
    [l EXCEPT !.imageCalls = @ + 1, !.handed = formats]

\* The error an external call of descriptor i rejects with.
ErrorOf(call, i) == [from |-> call, of |-> i]

\* An error wrapped into a new one.
RethrownWrapped(error) == [from |-> "transformImage", cause |-> error]

\* catch (err) { console.error(...); throw err; }, lines 1139-1142.
Rethrown(error) == error

Unsettled == [state |-> "pending", reason |-> Undefined]

\* Promise.all over the callbacks' promises, line 1103: it rejects with the
\* reason of the first promise that rejects, without waiting for the others,
\* and fulfils when all have fulfilled; once settled it stays as it is.
PromiseAll(p, positions, reason) ==
    IF p.state # "pending" THEN p
    ELSE IF reason # Undefined THEN [state |-> "rejected", reason |-> reason]
    ELSE IF \A j \in DOMAIN positions : positions[j] = "done"
         THEN [state |-> "fulfilled", reason |-> Undefined]
         ELSE p

\* Lines 1105-1117 and, without 'ico', 1123-1138, up to the first await: the
\* callback of transform.map runs for descriptor i.
StartDescriptor(i) ==
    /\ i \in 1..Len(transform)
    /\ at[i] = "start"
    /\ \A j \in 1..(i - 1) : at[j] # "start"
    /\ LET image == transform[i]
           formats == lists[image.formats]
           icoIndex == IndexOf(formats, "ico")
       IN  /\ dirs' = mkDirIfNotExist(dirs, OutputDirOf(image))
           /\ IF icoIndex > 0
              THEN /\ lists' = [lists EXCEPT ![image.formats] = Splice(formats, icoIndex)]
                   /\ locals' = [locals EXCEPT ![i].icoIndex = icoIndex,
                                               ![i].sizes = SortedSizes(image.widths)]
                   /\ at' = [at EXCEPT ![i] = "toIco"]
              ELSE IF Len(formats) > 0
              THEN /\ locals' = [locals EXCEPT ![i] = ImageCalled(@, formats)]
                   /\ at' = [at EXCEPT ![i] = "Image"]
                   /\ UNCHANGED lists
              ELSE /\ at' = [at EXCEPT ![i] = "done"]
                   /\ UNCHANGED <<lists, locals>>
    /\ promise' = PromiseAll(promise, at', Undefined)
    /\ UNCHANGED <<rest, transform, supplied, files>>

\* transform.map has called every callback: the awaited calls can settle.
AllStarted == \A j \in 1..Len(transform) : at[j] # "start"

\* image.formats.push('ico'), line 1145.
PushIco(ls, image) == [ls EXCEPT ![image.formats] = Append(@, "ico")]

\* toIco resolves, lines 1117-1122, then 1123-1154 up to the next await or
\* to the return.
IcoResolves(i) ==
    /\ AllStarted
    /\ i \in 1..Len(transform)
    /\ at[i] = "toIco"
    /\ LET image == transform[i]
           formats == lists[image.formats]
           written == WriteAll(files, {IcoPath(image)}, i, locals[i].sizes)
       IN  IF ~IsDirectory(dirs, OutputDirOf(image))
           THEN /\ at' = [at EXCEPT ![i] = "failed"]
                /\ locals' = [locals EXCEPT ![i].error = ErrorOf("writeFileSync", i)]
                /\ promise' = PromiseAll(promise, at', ErrorOf("writeFileSync", i))
                /\ UNCHANGED <<files, lists>>
           ELSE /\ files' = written
                /\ IF Len(formats) > 0
                   THEN /\ locals' = [locals EXCEPT ![i] = [ImageCalled(@, formats)
                                                            EXCEPT !.wrote = @ \cup {IcoPath(image)}]]
                        /\ at' = [at EXCEPT ![i] = "Image"]
                        /\ UNCHANGED lists
                   ELSE /\ locals' = [locals EXCEPT ![i].wrote = @ \cup {IcoPath(image)}]
                        /\ lists' = PushIco(lists, image)
                        /\ at' = [at EXCEPT ![i] = "done"]
                /\ promise' = PromiseAll(promise, at', Undefined)
    /\ UNCHANGED <<rest, transform, supplied, dirs>>

\* toIco rejects (the source cannot be read or resized): the descriptor's
\* promise rejects at line 1117.
IcoRejects(i) ==
    /\ AllStarted
    /\ i \in 1..Len(transform)
    /\ at[i] = "toIco"
    /\ at' = [at EXCEPT ![i] = "failed"]
    /\ locals' = [locals EXCEPT ![i].error = ErrorOf("toIco", i)]
    /\ promise' = PromiseAll(promise, at', ErrorOf("toIco", i))
    /\ UNCHANGED <<rest, transform, supplied, lists, files, dirs>>

\* Image resolves, lines 1131 and 1144-1154, having written its files in the
\* output directory.  The facility is not part of the
\* repository: it reads the formats of the list it was handed at the call
\* or at any time until it resolves.
ImageResolves(i) ==
    /\ AllStarted
    /\ i \in 1..Len(transform)
    /\ at[i] = "Image"
    /\ IsDirectory(dirs, OutputDirOf(transform[i]))
    /\ LET image == transform[i]
       IN  /\ \E seen \in {locals[i].handed, lists[image.formats]} :
                 /\ files' = WriteAll(files, RasterPaths(image, seen), i, "raster")
                 /\ locals' = [locals EXCEPT ![i].seen = seen,
                                             ![i].wrote = @ \cup RasterPaths(image, seen)]
           /\ lists' = IF locals[i].icoIndex > 0 THEN PushIco(lists, image) ELSE lists
           /\ at' = [at EXCEPT ![i] = "done"]
    /\ promise' = PromiseAll(promise, at', Undefined)
    /\ UNCHANGED <<rest, transform, supplied, dirs>>

\* Image rejects, lines 1139-1142: the error is logged and thrown again.
ImageRejects(i) ==
    /\ AllStarted
    /\ i \in 1..Len(transform)
    /\ at[i] = "Image"
    /\ at' = [at EXCEPT ![i] = "failed"]
    /\ locals' = [locals EXCEPT ![i].error = Rethrown(ErrorOf("Image", i))]
    /\ promise' = PromiseAll(promise, at', Rethrown(ErrorOf("Image", i)))
    /\ UNCHANGED <<rest, transform, supplied, lists, files, dirs>>

\* Generated descriptors and batches.
FormatLists ==
    {<<>>, <<"ico">>, <<"png">>, <<"png", "ico">>, <<"ico", "png">>, <<"png", "ico", "webp">>}

Descriptor(src, site, widths, outputDir, outputBasename) ==
    [src |-> src, formats |-> site, widths |-> widths, outputDir |-> outputDir,
     outputBasename |-> outputBasename]

FirstDescriptors ==
    {Descriptor("a", "F1", w, Undefined, Undefined) : w \in {<<16>>, <<32, 16>>}}

SecondDescriptors ==
    {Descriptor(src, site, <<16>>, dir, base) :
        src \in {"a", "b"}, site \in {"F1", "F2"}, dir \in {Undefined, Str("out"), Str("img")},
        base \in {Undefined, Str("logo")}}

Batches ==
    {<<d>> : d \in FirstDescriptors} \cup {<<d, e>> : d \in FirstDescriptors, e \in SecondDescriptors}

NewLocals ==
    [icoIndex |-> 0, sizes |-> <<>>, handed |-> <<>>, imageCalls |-> 0, seen |-> <<>>, wrote |-> {},
     error |-> Undefined]

\* transformImage(transform, options) has been called and no callback has
\* run yet.
InitImage ==
    /\ frontMatterParsingOptions = FrontMatterParsingOptionsOf(Undefined).value
    /\ accessGlobalData = TRUE
    /\ InitHeap
    /\ pc = "idle"
    /\ IdleFrame
    /\ NoNormalizer
    /\ parked = IdleCall
    /\ NoRun
    /\ NoCommit
    /\ transform \in Batches
    /\ supplied \in [{"F1", "F2"} -> FormatLists]
    /\ Len(transform) = 1 => supplied["F2"] = <<>>
    /\ lists = supplied
    /\ files = <<>>
    /\ dirs \in {EmptyObject, [out |-> "dir"], [out |-> "file"]}
    /\ at = [i \in 1..Len(transform) |-> "start"]
    /\ locals = [i \in 1..Len(transform) |-> NewLocals]
    /\ promise = Unsettled

NextImage ==
    \E i \in 1..MaxDescriptors :
        \/ StartDescriptor(i)
        \/ IcoResolves(i)
        \/ IcoRejects(i)
        \/ ImageResolves(i)
        \/ ImageRejects(i)

SpecImage == InitImage /\ [][NextImage]_vars

---------------------------------------------------------------------------
(* C18, C19, C20 *)

Elements(seq) == {seq[i] : i \in 1..Len(seq)}

\* The formats list of descriptor i as the caller supplied it, and what
\* remains of it without the icon format.
SuppliedFormats(i) == supplied[transform[i].formats]
Remaining(i) ==
    IF IndexOf(SuppliedFormats(i), "ico") > 0
    THEN Splice(SuppliedFormats(i), IndexOf(SuppliedFormats(i), "ico"))
    ELSE SuppliedFormats(i)

\* The output files of descriptor i when it is processed alone.
AloneOutputs(i) ==
    (IF "ico" \in Elements(SuppliedFormats(i)) THEN {IcoPath(transform[i])} ELSE {})
    \cup RasterPaths(transform[i], Remaining(i))

Settled == at # <<>> /\ \A i \in 1..Len(transform) : at[i] = "done"

\* Descriptor i is the only one that refers to its formats list.
OwnList(i) == \A j \in 1..Len(transform) : j # i => transform[j].formats # transform[i].formats

\* What C18 says of a descriptor that has returned.
IcoHandled(i) ==
    /\ {p \in locals[i].wrote : p.format = "ico"} = {IcoPath(transform[i])}
    /\ Len(locals[i].sizes) = Len(transform[i].widths)
    /\ Elements(locals[i].sizes) = Elements(transform[i].widths)
    /\ locals[i].imageCalls <= 1
    /\ locals[i].imageCalls = 1 =>
          locals[i].handed = Remaining(i) /\ "ico" \notin Elements(locals[i].seen)
    /\ Remaining(i) = <<>> => locals[i].imageCalls = 0

\* C18 as stated: a descriptor whose format list includes 'ico' writes
\* exactly one .ico file with one raster per requested width, calls the
\* general image facility at most once and only with the remaining formats,
\* and not at all when 'ico' was the only format.
C18_IcoAsStated ==
    \A i \in 1..Len(transform) :
        (at[i] = "done" /\ "ico" \in Elements(SuppliedFormats(i))) => IcoHandled(i)

\* The same of a descriptor that shares its formats list with no other.
C18_IcoOwnList ==
    \A i \in 1..Len(transform) :
        (at[i] = "done" /\ "ico" \in Elements(SuppliedFormats(i)) /\ OwnList(i)) =>
            IcoHandled(i)

\* Every output of descriptor i is in place, written by i.
OutputsInPlace(i) ==
    \A p \in AloneOutputs(i) : p \in DOMAIN files /\ files[p].by = i

SameDirectory ==
    Len(transform) = 2 /\ OutputDirOf(transform[1]) = OutputDirOf(transform[2])

\* C19 as stated: when two descriptors of a batch target the same output
\* directory and both complete, in whatever order their steps interleave,
\* the complete set of output files of each is in the directory, none
\* missing and none overwritten by the other.
C19_SameDirectoryAsStated ==
    (SameDirectory /\ Settled) => OutputsInPlace(1) /\ OutputsInPlace(2)

\* The same of two descriptors with lists of their own and different output
\* names.
C19_SameDirectoryOwnNames ==
    (SameDirectory /\ Settled /\ OwnList(1)
       /\ BasenameOf(transform[1]) # BasenameOf(transform[2])) =>
        OutputsInPlace(1) /\ OutputsInPlace(2)

\* C20 as stated: in every batch and interleaving a descriptor that returns
\* has produced the outputs it produces alone, also when descriptors refer
\* to the same formats list.
C20_IndependentAsStated ==
    \A i \in 1..Len(transform) : at[i] = "done" => locals[i].wrote = AloneOutputs(i)

\* The same of descriptors with formats lists of their own.
C20_IndependentOwnLists ==
    \A i \in 1..Len(transform) :
        (at[i] = "done" /\ OwnList(i)) => locals[i].wrote = AloneOutputs(i)

---------------------------------------------------------------------------
(* C30 *)

\* Every descriptor's promise has settled.
AllFinished == at # <<>> /\ \A i \in 1..Len(transform) : at[i] \in {"done", "failed"}

\* C30 as stated: after the batch settles every descriptor's formats list
\* holds the elements it held before the call, in the same order, whether
\* the descriptor succeeded or failed.
C30_DescriptorsAsStated == AllFinished => lists = supplied

\* What the code keeps: a list loses nothing but 'ico' and gains nothing
\* else, and a list without 'ico' is left alone.
C30_OnlyIcoMoves ==
    AllFinished =>
        \A site \in DOMAIN lists :
            /\ Elements(lists[site]) \ {"ico"} = Elements(supplied[site]) \ {"ico"}
            /\ "ico" \notin Elements(supplied[site]) => lists[site] = supplied[site]

---------------------------------------------------------------------------
(* C21, C22 *)

BatchSettled == promise # <<>> /\ promise.state # "pending"

\* C21 as stated: the promise transformImage returned settles only after
\* every descriptor has finished, succeeded or failed, so that no descriptor
\* writes a file after the batch has settled.
C21_JoinAsStated == BatchSettled => AllFinished

\* The join as the code has it: the promise fulfils only after every
\* descriptor has succeeded.
C21_FulfilledJoins == (promise # <<>> /\ promise.state = "fulfilled") => Settled

Failed == IF at = <<>> THEN {} ELSE {i \in 1..Len(transform) : at[i] = "failed"}

---------------------------------------------------------------------------
(* C23 *)

\* The descriptors whose callback has called mkDirIfNotExist.
Ensured == IF at = <<>> THEN {} ELSE {i \in 1..Len(transform) : at[i] # "start"}

\* C23 as stated: after any number of calls of mkDirIfNotExist for a path,
\* from any descriptors in any order, the directory exists; a call on an
\* existing directory changes nothing and no call fails because the
\* directory is there.
C23_DirectoryAsStated ==
    \A i \in Ensured : IsDirectory(dirs, OutputDirOf(transform[i]))

\* What the calls ensure: something is at the path, and it is a directory
\* unless the path was occupied by something else before the first call.
C23_PathOccupied ==
    \A i \in Ensured :
        /\ OutputDirOf(transform[i]) \in DOMAIN dirs
        /\ OutputDirOf(transform[i]) # OutputDir => IsDirectory(dirs, OutputDirOf(transform[i]))

---------------------------------------------------------------------------
(* C25, C26 *)

\* Where the line after the opening delimiter line starts, and where the
\* text goes on after a closing token that stands there.
AfterOpening(text) ==
    LET j == WordRunEnd(text, Len(OpenToken) + 1)
    IN  j + NewlineAt(text, j)
AfterClosing(text) == AfterOpening(text) + Len(CloseToken)

\* The text is an opening delimiter line directly followed by a closing
\* delimiter line (the last line of a text needs no line break).
EmptyBlock(text) ==
    /\ StartsAt(text, 1, OpenToken)
    /\ NewlineAt(text, WordRunEnd(text, Len(OpenToken) + 1)) > 0
    /\ StartsAt(text, AfterOpening(text), CloseToken)
    /\ \/ AfterClosing(text) = Len(text) + 1
       \/ NewlineAt(text, AfterClosing(text)) > 0

\* The text after the closing delimiter line of an empty block.
BodyOfEmptyBlock(text) ==
    Slice(text, AfterClosing(text) + NewlineAt(text, AfterClosing(text)), Len(text))

\* The call took the block for an empty one and still parsed it.
EmptyBlockResult ==
    /\ parsed.matter = Txt(<<>>)
    /\ parsed.content = Txt(BodyOfEmptyBlock(input))
    /\ \E i \in 1..Len(trace) : trace[i].op = "parse" /\ trace[i].text = <<>>

\* C25 as stated: a call that returns for an input whose front matter block
\* has nothing between the opening and the closing delimiter line returns
\* matter = the empty string and content = the text after the closing
\* line, and has invoked the notation parser on the empty text.
C25_EmptyBlockAsStated ==
    (pc = "done" /\ EmptyBlock(input)) => EmptyBlockResult

\* The same when no later line of the text begins with the closing token.
C25_EmptyBlockAlone ==
    (/\ pc = "done"
     /\ EmptyBlock(input)
     /\ \A c \in (AfterOpening(input) + 1)..Len(input) :
           ~(input[c - 1] = LF /\ StartsAt(input, c, CloseToken))) => EmptyBlockResult

LineBreaks == {<<LF>>, <<CR, LF>>}

\* The notation name an opening line can carry for the result: none, or the
\* returned language.
OpeningNames == {<<>>, <<parsed.language.v>>}

\* C26 as stated: whenever front matter is present, the opening delimiter
\* line (with its optional notation name), the returned matter, the closing
\* delimiter line and the returned content, concatenated in that order,
\* equal the input.
C26_LosslessAsStated ==
    (pc = "done" /\ BeginsWithFrontMatter(input)) =>
        \E name \in OpeningNames, nl1 \in LineBreaks, nl3 \in LineBreaks \cup {<<>>} :
            input = OpenToken \o name \o nl1 \o parsed.matter.v
                    \o CloseToken \o nl3 \o parsed.content.v

\* C26: whenever front matter is present the input is, in this order, the
\* opening token, the optional notation name, a line break, the returned
\* matter, the line break that ends the matter (the returned matter never
\* holds it; an empty block has none), the closing token, an optional line
\* break and the returned content.
C26_Lossless ==
    (pc = "done" /\ BeginsWithFrontMatter(input)) =>
        \E name \in OpeningNames, nl1 \in LineBreaks, nl2 \in LineBreaks \cup {<<>>},
           nl3 \in LineBreaks \cup {<<>>} :
            /\ input = OpenToken \o name \o nl1 \o parsed.matter.v \o nl2
                       \o CloseToken \o nl3 \o parsed.content.v
            /\ parsed.matter.v # <<>> => nl2 # <<>>

\* A call returned for an input with a notation name, a block of one line
\* and a body.
C26_Witness ==
    /\ pc = "done"
    /\ input = Hyphens \o <<"json", CR, LF, "f", LF>> \o Hyphens \o <<LF, "H">>
    /\ parsed.language = Str("json")
    /\ parsed.matter = Txt(<<"f">>)
    /\ parsed.content = Txt(<<"H">>)

---------------------------------------------------------------------------
(* C24 *)

\* C24: with two calls of the same render function in flight, in every
\* interleaving, the contexts of the running call hold for every key the
\* value of its own front matter, else of its own data argument, else of
\* the default template data, else of the ambient context, and nothing
\* else: no key of the other call's data or front matter; the ambient
\* context, the default template data and the configured options stay as
\* they were configured.
C24_CallsIsolated ==
    /\ heap["ctx"] = CtxObject
    /\ heap["defaultTemplateData"] = DefaultTemplateData
    /\ frontMatterParsingOptions = FrontMatterParsingOptionsOf(Undefined).value
    /\ Len(trace) >= 1 => IsLayered(trace[1].context, EmptyObject)
    /\ BodyStarted => IsLayered(trace[6].context, ParsedKeys)

\* A call without data and without front matter has rendered its body with
\* the configured foo while the other call, suspended before its body is
\* rendered, holds the foo of its front matter in its own context.
C24_Witness ==
    /\ pc = "done"
    /\ input = <<"$">>
    /\ args = <<>>
    /\ trace[6].context["foo"] = "def"
    /\ parked.pc = "renderBody"
    /\ parked.data \in {"merged", "defaultData"}
    /\ parked[parked.data]["foo"] = "1"

\* ---------------------------------------------------------------------------
\* run (EleventyUtil.mjs, lines 1047-1095) and its caller (eleventy.build.mjs)
\* ---------------------------------------------------------------------------

\* What run() leaves alone.
elsewhere == <<helper, batch, parked, norm, config, heap, pc, frame, err, trace>>

\* An Error object with a message.
Failure(message) == [t |-> "error", message |-> message]

\* A function argument: what a call of it does.
Returns == [t |-> "function", does |-> "returns"]
Throws(value) == [t |-> "function", does |-> "throws", value |-> value]

\* typeof value === 'function', after the truthiness test (lines 1075, 1087).
IsFunction(value) == value.t = "function"

\* What is at eleventy-<uuid>.js after fs.unlinkSync(configPath) was tried; the
\* call throws when nothing is there, and line 1084-1086 swallows that.
Unlinked(exists) == FALSE

\* The same when the removal has no effect.
UnlinkedNot(exists) == exists

\* err.message (line 1082): reading a property of null or undefined throws a
\* TypeError, any other value has the property or gives undefined.
HasProperties(value) == value.t \notin {"undefined", "null"}

\* Lines 1060-1061: the configuration file is written, then runEleventy starts.
RunStarts ==
    /\ runAt = "called"
    /\ configFile' = TRUE
    /\ runAt' = "building"
    /\ UNCHANGED <<callback, errorCallback, thrown, outcome, invoked, elsewhere>>

\* Lines 1062-1071: initializeConfig and write resolve.
BuildResolves ==
    /\ runAt = "building"
    /\ runAt' = "then"
    /\ UNCHANGED <<configFile, callback, errorCallback, thrown, outcome, invoked, elsewhere>>

\* Lines 1062-1071: the constructor, initializeConfig or write fails with a reason.
BuildRejects(reason) ==
    /\ runAt = "building"
    /\ runAt' = "catch"
    /\ thrown' = reason
    /\ UNCHANGED <<configFile, callback, errorCallback, outcome, invoked, elsewhere>>

\* Lines 1073-1080: the handler of the fulfilled build.
Then ==
    /\ runAt = "then"
    /\ configFile' = Unlinked(configFile)
    /\ IF IsFunction(callback)
       THEN /\ invoked' = Append(invoked, [fn |-> "callback"])
            /\ IF callback.does = "throws"
               THEN /\ runAt' = "catch"
                    /\ thrown' = callback.value
                    /\ UNCHANGED outcome
               ELSE /\ runAt' = "settled"
                    /\ outcome' = [state |-> "fulfilled", value |-> "returned"]
                    /\ UNCHANGED thrown
       ELSE /\ runAt' = "settled"
            /\ outcome' = [state |-> "fulfilled", value |-> "eleventy"]
            /\ UNCHANGED <<thrown, invoked>>
    /\ UNCHANGED <<callback, errorCallback, elsewhere>>

\* Lines 1081-1091: the handler of a rejection of the build or of the first handler.
Catch ==
    /\ runAt = "catch"
    /\ runAt' = "settled"
    /\ IF ~HasProperties(thrown)
       THEN \* line 1082 throws before anything else is done
            /\ outcome' = [state |-> "rejected", reason |-> Failure("TypeError")]
            /\ UNCHANGED <<configFile, invoked>>
       ELSE /\ configFile' = Unlinked(configFile)
            /\ IF IsFunction(errorCallback)
               THEN /\ invoked' = Append(invoked, [fn |-> "error", arg |-> thrown])
                    /\ outcome' = [state |-> "rejected",
                                   reason |-> IF errorCallback.does = "throws"
                                              THEN errorCallback.value ELSE thrown]
               ELSE /\ outcome' = [state |-> "rejected", reason |-> thrown]
                    /\ UNCHANGED invoked
    /\ UNCHANGED <<callback, errorCallback, thrown, elsewhere>>

\* The callbacks a caller passes: none, a value that is no function, a function
\* that returns, one that throws an Error, one that throws nothing in particular
\* (throw undefined, or a rejected promise without a reason).
Callbacks == {Undefined, Str("done"), Returns, Throws(Failure("callback")), Throws(Undefined)}
ErrorCallbacks == {Undefined, Str("fail"), Returns, Throws(Failure("handler"))}

\* The reasons a build fails with.
Reasons == {Failure("build"), Str("build"), Null}

InitRun ==
    /\ frontMatterParsingOptions = FrontMatterParsingOptionsOf(Undefined).value
    /\ accessGlobalData = TRUE
    /\ InitHeap
    /\ pc = "idle"
    /\ IdleFrame
    /\ NoNormalizer
    /\ NoBatch
    /\ NoCommit
    /\ parked = IdleCall
    /\ runAt = "called"
    /\ configFile = FALSE
    /\ callback \in Callbacks
    /\ errorCallback \in ErrorCallbacks
    /\ thrown = Undefined
    /\ outcome = [state |-> "pending"]
    /\ invoked = <<>>

NextRun ==
    \/ RunStarts
    \/ BuildResolves
    \/ \E reason \in Reasons : BuildRejects(reason)
    \/ Then
    \/ Catch

SpecRun == InitRun /\ [][NextRun]_vars

\* ---------------------------------------------------------------------------
\* C27: what has happened when run() settles
\* ---------------------------------------------------------------------------

\* The callback was called and threw.
CallbackThrew ==
    /\ IsFunction(callback)
    /\ callback.does = "throws"
    /\ \E i \in 1..Len(invoked) : invoked[i].fn = "callback"

\* The build failed (its reasons are never undefined) or the callback threw.
RunFailed == thrown # Undefined \/ CallbackThrew

\* The calls of the error callback so far.
ErrorCalls == {i \in 1..Len(invoked) : invoked[i].fn = "error"}

\* C27: whenever run() has settled the temporary configuration file is gone,
\* the error callback, when given, was called exactly once after a failure and
\* never after a success, and a failure has rejected the promise run() returned.
C27_SettledAsStated ==
    runAt = "settled" =>
        /\ ~configFile
        /\ RunFailed
              => /\ outcome.state = "rejected"
                 /\ IsFunction(errorCallback) => Cardinality(ErrorCalls) = 1
        /\ ~RunFailed => outcome.state = "fulfilled" /\ ErrorCalls = {}

\* The part of C27 that holds: the same whenever the reason of the failure is
\* a value that has properties, that is anything but null and undefined.
C27_SettledWithReason ==
    runAt = "settled" /\ (outcome.state = "rejected" => HasProperties(thrown)) =>
        /\ ~configFile
        /\ outcome.state = "rejected"
              => /\ IsFunction(errorCallback) => Cardinality(ErrorCalls) = 1
                 /\ ~(IsFunction(errorCallback) /\ errorCallback.does = "throws")
                       => outcome.reason = thrown
        /\ ~RunFailed => outcome.state = "fulfilled" /\ ErrorCalls = {}
        /\ RunFailed => outcome.state = "rejected"

\* ---------------------------------------------------------------------------
\* The commit helper (git-commit.cjs)
\* ---------------------------------------------------------------------------

\* What the commit helper leaves alone.
outside == <<runner, batch, parked, norm, config, heap, pc, frame, err, trace>>

\* The most keys a run handles.
MaxKeys == 3

\* The key Ctrl+C as stdin delivers it in raw mode.
CtrlC == "\\u0003"

\* Lines 10-20: the default message; the text of the configuration file is
\* trimmed at line 16 and followed by a blank and the update notice, so that
\* the message neither starts nor ends with white space.
defaultMessage == <<"chore(build):", " ", "Update">>

\* String.prototype.trim on a text of the model.
RECURSIVE TrimStart(_)
TrimStart(text) ==
    IF text # <<>> /\ Head(text) = " " THEN TrimStart(Tail(text)) ELSE text

RECURSIVE TrimEnd(_)
TrimEnd(text) ==
    IF text # <<>> /\ text[Len(text)] = " " THEN TrimEnd(SubSeq(text, 1, Len(text) - 1))
    ELSE text

Trim(text) == TrimEnd(TrimStart(text))

\* The message without the trim of line 35.
CommitMessageUntrimmed(message) == IF message = <<>> THEN defaultMessage ELSE message

\* Line 35: message.trim() || defaultMessage.
CommitMessage(message) == IF Trim(message) = <<>> THEN defaultMessage ELSE Trim(message)

\* clearTimeout(timeout): a timer that has fired or was cleared stays as it is.
Cleared(timer) == IF timer = "armed" THEN "cleared" ELSE timer

\* Lines 50-53: the timer expires and commits the default message. stdin is
\* left in raw mode and keeps delivering keys.
TimerExpires ==
    /\ exitCode = Undefined
    /\ timeout = "armed"
    /\ timeout' = "fired"
    /\ execs' = Append(execs, CommitMessage(defaultMessage))
    /\ UNCHANGED <<userInput, stdin, exitCode, pressed, outside>>

\* Lines 61-78: the handler of a key.
Key(char) ==
    /\ exitCode = Undefined
    /\ stdin = "raw"
    /\ Len(pressed) < MaxKeys
    /\ pressed' = Append(pressed, char)
    /\ IF char = CR \/ char = LF
       THEN /\ timeout' = Cleared(timeout)
            /\ stdin' = "paused"
            /\ execs' = Append(execs, CommitMessage(userInput))
            /\ UNCHANGED <<userInput, exitCode>>
       ELSE IF char = CtrlC
       THEN /\ exitCode' = Num(1)
            /\ UNCHANGED <<timeout, stdin, execs, userInput>>
       ELSE /\ timeout' = Cleared(timeout)
            /\ userInput' = Append(userInput, char)
            /\ UNCHANGED <<stdin, execs, exitCode>>
    /\ UNCHANGED outside

\* Lines 36-46: the callback of exec, when a git command has ended.
ExecReturns(failed) ==
    /\ exitCode = Undefined
    /\ execs # <<>>
    /\ exitCode' = IF failed THEN Num(1) ELSE Num(0)
    /\ UNCHANGED <<timeout, userInput, stdin, execs, pressed, outside>>

\* The keys of the model.
Keys == {CR, LF, CtrlC, "a", " "}

InitCommit ==
    /\ frontMatterParsingOptions = FrontMatterParsingOptionsOf(Undefined).value
    /\ accessGlobalData = TRUE
    /\ InitHeap
    /\ pc = "idle"
    /\ IdleFrame
    /\ NoNormalizer
    /\ NoBatch
    /\ NoRun
    /\ parked = IdleCall
    /\ timeout = "armed"
    /\ userInput = <<>>
    /\ stdin = "raw"
    /\ execs = <<>>
    /\ exitCode = Undefined
    /\ pressed = <<>>

NextCommit ==
    \/ TimerExpires
    \/ \E char \in Keys : Key(char)
    \/ \E failed \in BOOLEAN : ExecReturns(failed)

SpecCommit == InitCommit /\ [][NextCommit]_vars

\* ---------------------------------------------------------------------------
\* C28: at most one commit
\* ---------------------------------------------------------------------------

\* C28: the helper starts the git commit command at most once in a run,
\* whatever the order of the timer and the keys.
C28_OneCommitAsStated == Len(execs) <= 1

\* The part of C28 that holds: after Enter, which pauses stdin and clears the
\* timer, nothing starts a commit.
C28_NoneAfterEnter == [][stdin = "paused" => execs' = execs]_vars

\* ---------------------------------------------------------------------------
\* C29: what is committed, and when
\* ---------------------------------------------------------------------------

\* The step starts a commit.
Commits == execs' # execs

\* The step handles the key.
Handles(char) == pressed' = Append(pressed, char)

\* The timer commits only before any key and then the default message; once a
\* character was typed the timer does not fire and only Enter commits;
\* Ctrl+C before any commit exits with code 1 and commits nothing.
TimerAndKeys(message) ==
    /\ timeout = "armed" /\ timeout' = "fired"
          => pressed = <<>> /\ execs' = <<defaultMessage>>
    /\ userInput # <<>> => timeout' # "fired" \/ timeout = "fired"
    /\ userInput # <<>> /\ Commits
          => /\ Handles(CR) \/ Handles(LF)
             /\ execs' = Append(execs, message)
    /\ Handles(CtrlC) /\ execs = <<>> => exitCode' = Num(1) /\ execs' = <<>>

\* C29 as stated: the message Enter commits is the typed text, or the default
\* message when the typed text is blank.
C29_TypedTextAsStated ==
    [][TimerAndKeys(IF Trim(userInput) = <<>> THEN defaultMessage ELSE userInput)]_vars

\* C29: the timer commits the default message only when no key was handled
\* before it expired; once a character other than Enter and Ctrl+C was typed
\* the timer never fires and the commit happens only on Enter, with the typed
\* text without its leading and trailing white space as message, or the default
\* message when the typed text is blank; Ctrl+C before a commit has started
\* ends the process with exit code 1 and no commit.
C29_TypedTextTrimmed ==
    [][TimerAndKeys(IF Trim(userInput) = <<>> THEN defaultMessage ELSE Trim(userInput))]_vars

\* Enter has committed a typed text that started with a blank.
C29_Witness ==
    /\ userInput = <<" ", "a">>
    /\ pressed = <<" ", "a", CR>>
    /\ execs = <<<<"a">>>>
    /\ timeout = "cleared"
====
